---- MODULE Spec2Model ----
(***************************************************************************)
(* Library reconciliation engine of unplayer (src/libraryutils.cpp):       *)
(* LibraryUtils::updateDatabase and the operations that share its index    *)
(* (setMediaArt, resetDatabase), over a small filesystem.                  *)
(*                                                                         *)
(* Strings that the code compares by prefix or by content (file paths,     *)
(* directory names, artwork paths) are sequences of tokens, so that        *)
(* QString::startsWith, endsWith and contains are computed, not assumed.   *)
(* The empty QString is the empty sequence.  Short strings that the code   *)
(* only compares as a whole (titles, artists, albums, genres) are strings. *)
(***************************************************************************)
EXTENDS Integers, Sequences, FiniteSets, TLC

(***************************************************************************)
(* Bounds of the model.                                                    *)
(***************************************************************************)
\* accepted updateDatabase() calls in one behaviour
MaxScans == 2
\* events in one behaviour: changes of the filesystem or of the settings,
\* setMediaArt() and resetDatabase() calls, quits and kills of the application
MaxEvents == 2

(***************************************************************************)
(* String helpers.                                                         *)
(***************************************************************************)
Empty == << >>

\* a null QString (QString()) among the short strings, and the SQL NULL that
\* QSqlQuery::addBindValue stores for it: a QVariant holding a null QString is
\* null, and a null QVariant is bound as NULL
NullString == "(null)"

\* the SQL NULL in the column mediaArt, whose other values are paths
NullPath == <<NullString>>

\* emptyIfNull: a null string comes back as QString(), which is null again
emptyIfNull(string) == IF string = NullString THEN NullString ELSE string

\* addBindValue(emptyIfNull(mediaArt)) for an art path of the scan: an empty
\* path of the scan is a null QString (QString() in getTrackMediaArt,
\* findMediaArtForDirectory and saveEmbeddedMediaArt), bound as NULL
BindMediaArt(mediaArt) == IF mediaArt = Empty THEN NullPath ELSE mediaArt

\* query.value(i).toString() of the column mediaArt: NULL reads as an empty
\* string
valueToString(value) == IF value = NullPath THEN Empty ELSE value

\* the SQL comparison column = ? with a bound string: never true for NULL
SqlEquals(column, bound) == column # NullString /\ bound # NullString /\ column = bound

\* QString::startsWith
StartsWith(s, p) == Len(p) <= Len(s) /\ SubSeq(s, 1, Len(p)) = p

\* QString::endsWith(QLatin1Char('/'))
EndsWithSlash(s) == Len(s) > 0 /\ s[Len(s)] = "/"

\* QString::contains, for a one-token needle
Contains(s, tok) == \E i \in 1..Len(s) : s[i] = tok

\* index of the last occurrence of tok in s, 0 when there is none
LastIndexOf(s, tok) ==
    IF Contains(s, tok)
    THEN CHOOSE i \in 1..Len(s) : s[i] = tok /\ \A j \in (i+1)..Len(s) : s[j] # tok
    ELSE 0

\* QFileInfo::path / absolutePath of an absolute file path: all before the last '/'
DirOf(p) == SubSeq(p, 1, LastIndexOf(p, "/") - 1)

\* QFileInfo::suffix: all after the last '.'
Suffix(p) ==
    IF Contains(p, ".") THEN SubSeq(p, LastIndexOf(p, ".") + 1, Len(p)) ELSE Empty

\* QStringList::removeDuplicates: keeps the first occurrence of each string
RECURSIVE RemoveDuplicates(_)
RemoveDuplicates(l) ==
    IF l = << >> THEN << >>
    ELSE LET init == RemoveDuplicates(SubSeq(l, 1, Len(l) - 1))
             x == l[Len(l)]
         IN  IF \E i \in 1..Len(init) : init[i] = x THEN init ELSE Append(init, x)

\* a normalisation that appends nothing
AppendNothing(d) == d

\* the lambda prepareDirs of updateDatabase: removeDuplicates, then a '/' is
\* appended to every directory that does not end with one
AppendSlash(d) == IF EndsWithSlash(d) THEN d ELSE Append(d, "/")

prepareDirs(dirs) ==
    LET u == RemoveDuplicates(dirs)
    IN  [i \in 1..Len(u) |-> AppendSlash(u[i])]

\* the lambda isBlacklisted of updateDatabase
isBlacklisted(blacklistedDirectories, path) ==
    \E i \in 1..Len(blacklistedDirectories) : StartsWith(path, blacklistedDirectories[i])

\* a load that takes every path to be in the library
UnderLibraryAlways(libraryDirectories, path) == TRUE

\* the loop over libraryDirectories of the pre-scan load
UnderLibrary(libraryDirectories, path) ==
    \E i \in 1..Len(libraryDirectories) : StartsWith(path, libraryDirectories[i])

(***************************************************************************)
(* The filesystem of the model.                                            *)
(***************************************************************************)
DirM == <<"/", "m">>
DirR == <<"/", "m", "/", "r">>
DirR2 == <<"/", "m", "/", "r", "2">>
Dirs == {DirR, DirR2}

FileX == DirR \o <<"/", "x", ".", "mp3">>
FileY == DirR2 \o <<"/", "y", ".", "mp3">>
Files == {FileX, FileY}

\* a file whose extension is not an audio extension
FileZ == DirR2 \o <<"/", "z", ".", "txt">>

\* an entry of a directory walk that is no candidate file ("." and "..")
DotEntry == <<".">>

\* the image findMediaArtForDirectory finds in a directory that has one
DirImage(d) == d \o <<"/", "cover", ".", "jpg">>

\* mMediaArtDirectory
mMediaArtDirectory == <<"/", "c", "/", "media-art">>

\* LibraryUtils::mimeTypesExtensions (the one the model's files use)
mimeTypesExtensionsWithText == {<<"mp3">>, <<"txt">>}

mimeTypesExtensions == {<<"mp3">>}

\* a hash that is the same for every content
Md5Constant(data) == "h1"

\* QCryptographicHash::hash(data, Md5).toHex() on the model's art contents
Md5(data) ==
    CASE data = "png1" -> "h1"
      [] data = "jpg2" -> "h2"
      [] OTHER -> "h3"

\* mMimeDb.mimeTypeForData(data).preferredSuffix(): empty when the type of the
\* content cannot be determined
PreferredSuffix(data) ==
    CASE data = "png1" -> <<"png">>
      [] data = "jpg2" -> <<"jpg">>
      [] OTHER -> Empty

\* "%1/%2-embedded.%3" of saveEmbeddedMediaArt
EmbeddedPath(md5, suffix) == mMediaArtDirectory \o <<"/", md5, "-embedded", ".">> \o suffix

\* QUuid::createUuid(): the n-th call returns the n-th of these
Uuids == <<"u1", "u2", "u3">>

\* "%1/%2.%3" of setMediaArt, for the n-th fresh UUID and a jpg image
ManualPath(n) == mMediaArtDirectory \o <<"/", Uuids[n], ".", "jpg">>

\* LibraryUtils::mimeTypesByContent (the one the model's files use)
mimeTypesByContent == {"audio/mpeg"}

\* what tagutils::getTrackInfo returns for the tag contents of the model; the
\* reader returns an empty Info for a file it cannot parse
TagInfo(tags) ==
    CASE tags = "multi" ->
           [title |-> "T", artists |-> <<"A", "B">>, albums |-> << >>, genres |-> <<"X">>,
            year |-> 2001, trackNumber |-> 1, discNumber |-> "1", duration |-> 120]
      [] tags = "single" ->
           [title |-> "S", artists |-> <<"A">>, albums |-> <<"L">>, genres |-> <<"X">>,
            year |-> 2002, trackNumber |-> 2, discNumber |-> "", duration |-> 60]
      [] tags = "duo" ->
           [title |-> "D", artists |-> <<"A", "B">>, albums |-> <<"L">>, genres |-> <<"X">>,
            year |-> 2003, trackNumber |-> 3, discNumber |-> "1", duration |-> 30]
      [] OTHER ->
           [title |-> NullString, artists |-> << >>, albums |-> << >>, genres |-> << >>,
            year |-> 0, trackNumber |-> 0, discNumber |-> NullString, duration |-> 0]

\* maps (std::unordered_map): functions with a finite domain
EmptyMap == << >>

\* std::unordered_map::insert: an existing key keeps its value
MapInsert(m, k, v) == IF k \in DOMAIN m THEN m ELSE (k :> v) @@ m

(***************************************************************************)
(* State.                                                                  *)
(***************************************************************************)
VARIABLES
    \* filesystem: per candidate file its kind ("none", "file", "noread", "dir"),
    \* modification time, content-sniffed MIME type, tag contents and embedded art
    fs,
    \* the directories that hold an image matching findMediaArtForDirectory
    dirImage,
    \* the directories that hold a .nomedia file
    noMedia,
    \* whether mMediaArtDirectory exists, and the files in it
    cacheDir, cache,
    \* Settings: libraryDirectories, blacklistedDirectories, useDirectoryMediaArt
    settings,
    \* the tracks table as committed in the database file
    committed,
    \* the tracks table as the rescan connection sees it inside its transaction
    tx,
    \* LibraryUtils::mUpdating
    mUpdating,
    \* "running": qApp is set; "quitting": qApp is null, the process waits for
    \* its worker; "dead": no process
    app,
    \* number of scan workers running in the thread pool
    workers,
    \* position of the scan worker: "idle", "start", "walk", "delete", "nullify",
    \* "sweep", "commit", "finished" (the future is finished, the watcher's
    \* handler has not run yet)
    scanPc,
    \* the worker's local variables
    loc,
    \* the signals emitted by the last step, in order
    emitted,
    \* whether statements and file operations may fail in this behaviour
    faults,
    \* the sets the environment draws its changes from in this behaviour
    world,
    \* counters of the bounded resources, and history for the properties
    used, hist,
    \* the default connection and the schema of the database file: the columns
    \* of the tracks table (none without a table), whether the connection is
    \* open, mDatabaseInitialized and mCreatedTable
    store,
    \* the aggregate call answered by the last step and the value it returned
    returned,
    \* the nullification of the missing art paths taken on its own: the size
    \* of deletedMediaArt and the UPDATE statements prepared for it, each with
    \* the index of the first path it binds and the number of paths it binds
    nullification

progVars == <<committed, tx, mUpdating, app, workers, scanPc, loc>>
envVars == <<fs, dirImage, noMedia, cacheDir, cache, settings>>
vars == <<fs, dirImage, noMedia, cacheDir, cache, settings, committed, tx, mUpdating,
          app, workers, scanPc, loc, emitted, faults, world, used, hist, store, returned,
          nullification>>

\* the outcomes a statement or a file operation can have
Outcomes == IF faults THEN BOOLEAN ELSE {TRUE}

\* no tracks table
NoTable == << >>

\* the outcomes of a statement on the tracks table: it fails without a table
Statements == IF store.columns = NoTable THEN {FALSE} ELSE Outcomes

\* no aggregate call was answered by the last step
NoValue == [call |-> "none", ok |-> TRUE, count |-> 0, path |-> Empty]

\* the step is no construction and answers no aggregate call
SameStore == store' = store /\ returned' = NoValue /\ nullification' = nullification

\* QFile::exists of an artwork path
FileExists(path) == path \in cache \/ \E d \in dirImage : path = DirImage(d)

\* tagutils::getTrackInfo(fileInfo, mimeType) of a file of the model
getTrackInfo(f) ==
    [title |-> TagInfo(fs[f].tags).title,
     artists |-> TagInfo(fs[f].tags).artists,
     albums |-> TagInfo(fs[f].tags).albums,
     genres |-> TagInfo(fs[f].tags).genres,
     year |-> TagInfo(fs[f].tags).year,
     trackNumber |-> TagInfo(fs[f].tags).trackNumber,
     discNumber |-> TagInfo(fs[f].tags).discNumber,
     duration |-> TagInfo(fs[f].tags).duration,
     mediaArtData |-> fs[f].art]

(***************************************************************************)
(* updateTrackInDatabase.                                                  *)
(***************************************************************************)
\* the lambda forEachOrOnce: for an empty list exec(QString()) runs once
forEachOrOnce(strings) == IF strings = << >> THEN <<NullString>> ELSE strings

\* the lambda sizeOrOne
sizeOrOne(strings) == IF strings = << >> THEN 1 ELSE Len(strings)

\* the rows of the INSERT statement: one per (artist, album, genre); k is the
\* position of the row in the statement
InsertedRows(id, filePath, modificationTime, info, mediaArt) ==
    LET ar == forEachOrOnce(info.artists)
        al == forEachOrOnce(info.albums)
        ge == forEachOrOnce(info.genres)
    IN  { [id |-> id, filePath |-> filePath, modificationTime |-> modificationTime,
           title |-> info.title, artist |-> emptyIfNull(ar[i]),
           album |-> emptyIfNull(al[j]),
           year |-> info.year, trackNumber |-> info.trackNumber,
           discNumber |-> emptyIfNull(info.discNumber), genre |-> emptyIfNull(ge[g]),
           duration |-> info.duration, mediaArt |-> BindMediaArt(mediaArt),
           k |-> ((i - 1) * Len(al) + (j - 1)) * Len(ge) + g] :
          i \in 1..Len(ar), j \in 1..Len(al), g \in 1..Len(ge) }

\* DELETE FROM tracks WHERE id = ? (when inDb), then the INSERT; okDelete and
\* okInsert are the outcomes of query.exec()
updateTrackInDatabase(db, inDb, id, filePath, modificationTime, info, mediaArt, okDelete, okInsert) ==
    LET afterDelete == IF inDb /\ okDelete THEN {r \in db : r.id # id} ELSE db
    IN  IF okInsert
        THEN afterDelete \cup InsertedRows(id, filePath, modificationTime, info, mediaArt)
        ELSE afterDelete

(***************************************************************************)
(* Art resolution.  The operators return the result together with the      *)
(* caches and the cache directory as the call leaves them.                 *)
(***************************************************************************)
\* LibraryUtils::findMediaArtForDirectory
findMediaArtForDirectory(mediaArtHash, directoryPath) ==
    IF directoryPath \in DOMAIN mediaArtHash
    THEN [art |-> mediaArtHash[directoryPath], dirs |-> mediaArtHash]
    ELSE LET mediaArt == IF directoryPath \in dirImage THEN DirImage(directoryPath)
                         ELSE Empty
         IN  [art |-> mediaArt, dirs |-> MapInsert(mediaArtHash, directoryPath, mediaArt)]

\* LibraryUtils::saveEmbeddedMediaArt; okOpen is the outcome of file.open
saveEmbeddedMediaArt(data, embeddedMediaArtFiles, cacheFiles, okOpen) ==
    LET md5 == Md5(data)
        suffix == PreferredSuffix(data)
        filePath == EmbeddedPath(md5, suffix)
    IN  IF md5 \in DOMAIN embeddedMediaArtFiles
        THEN [art |-> embeddedMediaArtFiles[md5], emb |-> embeddedMediaArtFiles,
              cache |-> cacheFiles]
        ELSE IF suffix = Empty
        THEN [art |-> Empty, emb |-> embeddedMediaArtFiles, cache |-> cacheFiles]
        ELSE IF okOpen
        THEN [art |-> filePath, emb |-> MapInsert(embeddedMediaArtFiles, md5, filePath),
              cache |-> cacheFiles \cup {filePath}]
        ELSE [art |-> Empty, emb |-> embeddedMediaArtFiles, cache |-> cacheFiles]

\* an art resolution that looks into the directory first whatever the preference
getTrackMediaArtDirectoryFirst(embeddedMediaArtData, embeddedMediaArtFiles, directoryPath, mediaArtDirectories, preferDirectoriesMediaArt, cacheFiles, okOpen) ==
    LET dir == findMediaArtForDirectory(mediaArtDirectories, directoryPath)
        sav == saveEmbeddedMediaArt(embeddedMediaArtData, embeddedMediaArtFiles,
                                    cacheFiles, okOpen)
    IN  IF dir.art = Empty /\ embeddedMediaArtData # ""
        THEN [art |-> sav.art, emb |-> sav.emb, dirs |-> dir.dirs, cache |-> sav.cache]
        ELSE [art |-> dir.art, emb |-> embeddedMediaArtFiles, dirs |-> dir.dirs,
              cache |-> cacheFiles]

\* LibraryUtils::getTrackMediaArt
getTrackMediaArt(embeddedMediaArtData, embeddedMediaArtFiles, directoryPath, mediaArtDirectories, preferDirectoriesMediaArt, cacheFiles, okOpen) ==
    LET dir == findMediaArtForDirectory(mediaArtDirectories, directoryPath)
        sav == saveEmbeddedMediaArt(embeddedMediaArtData, embeddedMediaArtFiles,
                                    cacheFiles, okOpen)
        fromDir == [art |-> dir.art, emb |-> embeddedMediaArtFiles, dirs |-> dir.dirs,
                    cache |-> cacheFiles]
    IN  IF preferDirectoriesMediaArt
        THEN IF dir.art = Empty /\ embeddedMediaArtData # ""
             THEN [art |-> sav.art, emb |-> sav.emb, dirs |-> dir.dirs, cache |-> sav.cache]
             ELSE fromDir
        ELSE IF embeddedMediaArtData = ""
             THEN fromDir
             ELSE [art |-> sav.art, emb |-> sav.emb, dirs |-> mediaArtDirectories,
                   cache |-> sav.cache]

(***************************************************************************)
(* The scan worker (the lambda run by QtConcurrent::run in updateDatabase). *)
(***************************************************************************)
\* the worker's locals before the scan has set them
NoLoc ==
    [libraryDirectories |-> << >>, blacklistedDirectories |-> << >>,
     noMediaDirectories |-> EmptyMap, files |-> EmptyMap, lastId |-> -1,
     modificationTimeHash |-> EmptyMap, mediaArtHash |-> EmptyMap,
     mediaArtExistanceHash |-> EmptyMap, deletedMediaArtCount |-> 0,
     filesToRemove |-> << >>, embeddedMediaArtFiles |-> EmptyMap,
     mediaArtDirectoriesHash |-> EmptyMap, preferDirectoryMediaArt |-> FALSE,
     root |-> 0, todo |-> {}]

\* the lambda isNoMediaDirectory: the answer and the cache it leaves
isNoMediaDirectory(noMediaDirectories, directory) ==
    IF directory \in DOMAIN noMediaDirectories
    THEN [noMedia |-> noMediaDirectories[directory], dirs |-> noMediaDirectories]
    ELSE [noMedia |-> directory \in noMedia,
          dirs |-> MapInsert(noMediaDirectories, directory, directory \in noMedia)]

\* the ids of a table in ascending order (ORDER BY id)
RECURSIVE SortedIds(_)
SortedIds(ids) ==
    IF ids = {} THEN << >>
    ELSE LET m == CHOOSE x \in ids : \A y \in ids : x <= y
         IN  <<m>> \o SortedIds(ids \ {m})

IdsOf(rows) == {r.id : r \in rows}

\* SELECT id, filePath, modificationTime, mediaArt FROM tracks GROUP BY id:
\* for each id the columns of one row of the group, whichever the engine picks
Selected(r) ==
    [id |-> r.id, filePath |-> r.filePath, modificationTime |-> r.modificationTime,
     mediaArt |-> valueToString(r.mediaArt)]

GroupById(rows) ==
    { g \in [IdsOf(rows) -> {Selected(r) : r \in rows}] : \A i \in IdsOf(rows) : g[i].id = i }

\* a load loop that does not record the ids it reads
LastIdKept(lastId, id) == lastId

\* the id that the load loop leaves in lastId after the row with this id
LastIdAfter(lastId, id) == id

\* one iteration of the while (query.next()) loop of the pre-scan load
LoadRow(l, row) ==
    LET id == row.id
        filePath == row.filePath
        kind == fs[filePath].kind
        gone == kind = "none" \/ kind = "dir" \/ kind = "noread"
        inLibrary == UnderLibrary(l.libraryDirectories, filePath)
        blacklisted == isBlacklisted(l.blacklistedDirectories, filePath)
        nm == isNoMediaDirectory(l.noMediaDirectories, DirOf(filePath))
        askedNoMedia == ~gone /\ inLibrary /\ ~blacklisted
        remove == gone \/ ~inLibrary \/ blacklisted \/ nm.noMedia
        l1 == [l EXCEPT !.lastId = LastIdAfter(l.lastId, id),
                        !.noMediaDirectories = IF askedNoMedia THEN nm.dirs ELSE @]
        mediaArt == row.mediaArt
        known == mediaArt \in DOMAIN l1.mediaArtExistanceHash
        l2 == [l1 EXCEPT !.files = MapInsert(@, filePath, id),
                         !.modificationTimeHash = MapInsert(@, id, row.modificationTime)]
    IN  IF remove
        THEN [l1 EXCEPT !.filesToRemove = Append(@, id)]
        ELSE IF mediaArt = Empty
        THEN [l2 EXCEPT !.mediaArtHash = MapInsert(@, id, mediaArt)]
        ELSE IF ~known
        THEN IF FileExists(mediaArt)
             THEN [l2 EXCEPT !.mediaArtExistanceHash = MapInsert(@, mediaArt, TRUE),
                             !.mediaArtHash = MapInsert(@, id, mediaArt)]
             ELSE [l2 EXCEPT !.mediaArtExistanceHash = MapInsert(@, mediaArt, FALSE),
                             !.deletedMediaArtCount = @ + 1]
        ELSE IF l2.mediaArtExistanceHash[mediaArt]
        THEN [l2 EXCEPT !.mediaArtHash = MapInsert(@, id, mediaArt)]
        ELSE l2

\* the whole load loop over the result of the SELECT, in ascending id order
RECURSIVE LoadRows(_, _, _)
LoadRows(l, ids, group) ==
    IF ids = << >> THEN l
    ELSE LoadRows(LoadRow(l, group[Head(ids)]), Tail(ids), group)

\* the index of the embedded art files found in the cache directory at scan
\* start: "*-embedded.*", keyed by the part of the name before "-embedded"
EmbeddedHashOf(path) == path[Len(mMediaArtDirectory) + 2]

EmbeddedIndex(cacheFiles) ==
    LET emb == {path \in cacheFiles : Contains(path, "-embedded")}
    IN  [h \in {EmbeddedHashOf(path) : path \in emb} |->
            CHOOSE path \in emb : EmbeddedHashOf(path) = h]

\* the entries a QDirIterator over a library directory yields
Entries(topLevelDirectory) ==
    {f \in DOMAIN fs : fs[f].kind # "none" /\ StartsWith(f, topLevelDirectory)} \cup {DotEntry}

\* moves on to the next library directory when the iterator has no next entry
NextRoot(l) ==
    IF l.todo # {} \/ l.root >= Len(l.libraryDirectories) THEN l
    ELSE [l EXCEPT !.root = @ + 1, !.todo = Entries(l.libraryDirectories[l.root + 1])]

\* position after an entry: in the walk while a library directory is left
PcAfterEntry(l) == IF l.todo = {} THEN "delete" ELSE "walk"

(***************************************************************************)
(* One iteration of the walk loop, for a file entry.  ok holds the outcomes *)
(* of the statements and of file.open: ok.delete, ok.insert, ok.update,     *)
(* ok.open.  The result is the locals, the transaction's table and the      *)
(* cache directory after the iteration, and whether the tag reader ran.     *)
(***************************************************************************)
Step(l, db, cacheFiles, read) == [loc |-> l, tx |-> db, cache |-> cacheFiles, read |-> read]

\* the file is not in the files map
NewFile(f, l, db, cacheFiles, ok) ==
    LET nm == isNoMediaDirectory(l.noMediaDirectories, DirOf(f))
        l1 == [l EXCEPT !.noMediaDirectories = nm.dirs]
        trackInfo == getTrackInfo(f)
        art == getTrackMediaArt(trackInfo.mediaArtData, l.embeddedMediaArtFiles, DirOf(f),
                                l.mediaArtDirectoriesHash, l.preferDirectoryMediaArt,
                                cacheFiles, cacheDir /\ ok.open)
        l2 == [l1 EXCEPT !.lastId = @ + 1,
                         !.embeddedMediaArtFiles = art.emb,
                         !.mediaArtDirectoriesHash = art.dirs]
    IN  IF nm.noMedia THEN Step(l1, db, cacheFiles, FALSE)
        ELSE IF isBlacklisted(l.blacklistedDirectories, f) THEN Step(l1, db, cacheFiles, FALSE)
        ELSE IF Suffix(f) \in mimeTypesExtensions /\ fs[f].mime \in mimeTypesByContent
        THEN Step(l2,
                  updateTrackInDatabase(db, FALSE, l.lastId + 1, f, fs[f].mtime, trackInfo,
                                        art.art, ok.delete, ok.insert),
                  art.cache, TRUE)
        ELSE Step(l1, db, cacheFiles, FALSE)

\* an UPDATE for every resolution that differs from the stored art
UpdateIssuedIfDifferent(embedded, newMediaArt, mediaArt) == newMediaArt # mediaArt

\* the art a scan resolves for an unchanged file, given the stored art of the
\* row the load picked: whether an UPDATE is issued, and with which path
UpdateIssued(embedded, newMediaArt, mediaArt) ==
    ~(embedded /\ newMediaArt = Empty) /\ newMediaArt # mediaArt

\* the file is in the files map and its modification time is the stored one
UnchangedFile(f, id, l, db, cacheFiles, ok) ==
    LET deleted == id \notin DOMAIN l.mediaArtHash
        mediaArt == IF deleted THEN Empty ELSE l.mediaArtHash[id]
        embeddedOrManual == StartsWith(mediaArt, mMediaArtDirectory)
        embedded == embeddedOrManual /\ Contains(mediaArt, "-embedded")
        manual == embeddedOrManual /\ ~embedded
        noExtract == (~deleted /\ mediaArt = Empty) \/ embedded
        mediaArtData == IF noExtract THEN "" ELSE getTrackInfo(f).mediaArtData
        art == getTrackMediaArt(mediaArtData, l.embeddedMediaArtFiles, DirOf(f),
                                l.mediaArtDirectoriesHash, l.preferDirectoryMediaArt,
                                cacheFiles, cacheDir /\ ok.open)
        l1 == [l EXCEPT !.embeddedMediaArtFiles = art.emb,
                        !.mediaArtDirectoriesHash = art.dirs]
    IN  IF manual THEN Step(l, db, cacheFiles, FALSE)
        ELSE IF ~embedded \/ l.preferDirectoryMediaArt
        THEN Step(l1,
                  IF UpdateIssued(embedded, art.art, mediaArt) /\ ok.update
                  THEN {IF r.id = id THEN [r EXCEPT !.mediaArt = BindMediaArt(art.art)] ELSE r :
                        r \in db}
                  ELSE db,
                  art.cache, ~noExtract)
        ELSE Step(l, db, cacheFiles, FALSE)

\* the file is in the files map and its modification time differs
ChangedFile(f, id, l, db, cacheFiles, ok) ==
    LET trackInfo == getTrackInfo(f)
        art == getTrackMediaArt(trackInfo.mediaArtData, l.embeddedMediaArtFiles, DirOf(f),
                                l.mediaArtDirectoriesHash, l.preferDirectoryMediaArt,
                                cacheFiles, cacheDir /\ ok.open)
        l1 == [l EXCEPT !.embeddedMediaArtFiles = art.emb,
                        !.mediaArtDirectoriesHash = art.dirs]
    IN  IF fs[f].mime \in mimeTypesByContent
        THEN Step(l1,
                  updateTrackInDatabase(db, TRUE, id, f, fs[f].mtime, trackInfo, art.art,
                                        ok.delete, ok.insert),
                  art.cache, TRUE)
        ELSE Step([l EXCEPT !.filesToRemove = Append(@, id)], db, cacheFiles, FALSE)

\* the body of the while (iterator.hasNext()) loop after the qApp check
ProcessEntry(e, l, db, cacheFiles, ok) ==
    IF e = DotEntry THEN Step(l, db, cacheFiles, FALSE)
    ELSE IF fs[e].kind = "dir" \/ fs[e].kind = "noread" THEN Step(l, db, cacheFiles, FALSE)
    ELSE IF e \notin DOMAIN l.files THEN NewFile(e, l, db, cacheFiles, ok)
    ELSE IF fs[e].mtime = l.modificationTimeHash[l.files[e]]
    THEN UnchangedFile(e, l.files[e], l, db, cacheFiles, ok)
    ELSE ChangedFile(e, l.files[e], l, db, cacheFiles, ok)

(***************************************************************************)
(* The steps after the walk.                                               *)
(***************************************************************************)
\* DELETE FROM tracks WHERE id IN (filesToRemove)
BulkDelete(db, filesToRemove, okDelete) ==
    IF filesToRemove # << >> /\ okDelete
    THEN {r \in db : \A i \in 1..Len(filesToRemove) : r.id # filesToRemove[i]}
    ELSE db

\* the paths the load found missing on disk
DeletedMediaArt(l) ==
    {path \in DOMAIN l.mediaArtExistanceHash : ~l.mediaArtExistanceHash[path]}

\* the most parameters one statement binds
maxParametersCount == 999

\* a count that binds all the paths that are left
countAllLeft(left) == left

\* the lambda that gives count: the paths left, at most maxParametersCount
countOf(left) == IF left > maxParametersCount THEN maxParametersCount ELSE left

\* for (int i = 0, max = deletedMediaArt.size(); i < max; i += maxParametersCount):
\* the statements prepared from index i on, each binding deletedMediaArt[j]
\* for j from i to i + count - 1
RECURSIVE NullifyStatements(_, _)
NullifyStatements(i, max) ==
    IF i < max
    THEN <<[first |-> i, count |-> countOf(max - i)]>>
             \o NullifyStatements(i + maxParametersCount, max)
    ELSE << >>

\* the indices of deletedMediaArt that a statement binds
BoundBy(statement) == statement.first .. (statement.first + statement.count - 1)

\* the vector deletedMediaArt in the order the hash yields its keys
RECURSIVE DeletedMediaArtVector(_)
DeletedMediaArtVector(paths) ==
    IF paths = {} THEN << >>
    ELSE LET path == CHOOSE x \in paths : TRUE
         IN  <<path>> \o DeletedMediaArtVector(paths \ {path})

\* UPDATE tracks SET mediaArt = '' WHERE mediaArt IN (?,...), one statement
\* for every maxParametersCount paths of deletedMediaArt
Nullify(db, l, okUpdate) ==
    LET deletedMediaArt == DeletedMediaArtVector(DeletedMediaArt(l))
        statements == NullifyStatements(0, Len(deletedMediaArt))
        bound == {deletedMediaArt[j + 1] : j \in UNION {BoundBy(statements[n]) :
                                                        n \in 1..Len(statements)}}
    IN  IF l.deletedMediaArtCount > 0 /\ okUpdate
        THEN {IF r.mediaArt \in bound THEN [r EXCEPT !.mediaArt = Empty] ELSE r : r \in db}
        ELSE db

\* SELECT DISTINCT(mediaArt) FROM tracks WHERE mediaArt != ''; the set stays
\* empty when the query fails
AllMediaArt(db, okSelect) ==
    IF okSelect
    THEN {r.mediaArt : r \in {x \in db : x.mediaArt # Empty /\ x.mediaArt # NullPath}}
    ELSE {}

\* a sweep that removes nothing
SweepKeepsAll(cacheFiles, allMediaArt, okRemove) == cacheFiles

\* the files of the cache directory left by the sweep; okRemove is the outcome
\* of QFile::remove
Sweep(cacheFiles, allMediaArt, okRemove) ==
    IF okRemove THEN {path \in cacheFiles : path \in allMediaArt} ELSE cacheFiles

\* a commit that leaves the database file as it was
CommitRollsBack(fileRows, txRows) == fileRows

\* what db.commit() makes of the database file
Commit(fileRows, txRows) == txRows

(***************************************************************************)
(* The schema check of the constructor.                                    *)
(***************************************************************************)
\* the columns of CREATE TABLE tracks, which are the names of the vector fields
fields ==
    <<"id", "filePath", "modificationTime", "title", "artist", "album", "year",
      "trackNumber", "discNumber", "genre", "duration", "mediaArt">>

\* contains(fields, record.fieldName(i))
ContainsField(name) == \E i \in 1..Len(fields) : fields[i] = name

\* a schema check that finds every existing table good
SchemaAlwaysKept(columns) == FALSE

\* the check of the columns of an existing table: createTable becomes true
SchemaDiffers(columns) ==
    IF Len(columns) = Len(fields)
    THEN \E i \in 1..Len(columns) : ~ContainsField(columns[i])
    ELSE TRUE

\* what initDatabase leaves: the table and its rows, and the members
Store(columns, open, initialized, created) ==
    [columns |-> columns, open |-> open, mDatabaseInitialized |-> initialized,
     mCreatedTable |-> created]

Initialized(columns, rows, open, initialized, created) ==
    [store |-> Store(columns, open, initialized, created), rows |-> rows]

\* LibraryUtils::initDatabase on a database file with this table and these
\* rows, with the outcomes of mkpath, db.open(), DROP TABLE and CREATE TABLE;
\* CREATE TABLE fails on its own when the table is still there
initDatabase(columns, rows, okMkpath, okOpen, okDrop, okCreate) ==
    IF ~okMkpath THEN Initialized(columns, rows, FALSE, FALSE, FALSE)
    ELSE IF ~okOpen THEN Initialized(columns, rows, FALSE, FALSE, FALSE)
    ELSE LET exists == columns # NoTable
             createTable == ~exists \/ SchemaDiffers(columns)
             dropped == exists /\ createTable /\ okDrop
             columns1 == IF dropped THEN NoTable ELSE columns
             rows1 == IF dropped THEN {} ELSE rows
         IN  IF createTable
             THEN IF okCreate /\ columns1 = NoTable
                  THEN Initialized(fields, {}, TRUE, TRUE, TRUE)
                  ELSE Initialized(columns1, rows1, TRUE, FALSE, FALSE)
             ELSE Initialized(columns, rows, TRUE, TRUE, FALSE)

(***************************************************************************)
(* The aggregate operations.  The text columns of the model hold upper     *)
(* case letters only, so COLLATE NOCASE compares them as they are.         *)
(***************************************************************************)
RECURSIVE SumOf(_)
SumOf(g) ==
    IF DOMAIN g = {} THEN 0
    ELSE LET i == CHOOSE i \in DOMAIN g : TRUE
         IN  g[i] + SumOf([j \in DOMAIN g \ {i} |-> g[j]])

\* COUNT(DISTINCT(column)): the distinct values of the column; NULL is not
\* counted (the id is bound from an int and is never NULL)
CountDistinct(values) == Cardinality(values)

NotNull(strings) == strings \ {NullString}

\* SELECT duration from tracks GROUP BY id: for each id the duration of one row
\* of the group, whichever the engine picks
DurationById(rows) ==
    {g \in [IdsOf(rows) -> {r.duration : r \in rows}] :
       \A i \in IdsOf(rows) : \E r \in rows : r.id = i /\ r.duration = g[i]}

\* SELECT mediaArt ... WHERE mediaArt != '' ... GROUP BY mediaArt ORDER BY
\* RANDOM() LIMIT 1: any of the paths, or QString() when there is none
RandomPath(rows) ==
    LET paths == {r.mediaArt : r \in rows} \ {Empty, NullPath}
    IN  IF paths = {} THEN {Empty} ELSE paths

artistsCount(rows) == {CountDistinct(NotNull({r.artist : r \in rows}))}

albumsCount(rows) == {CountDistinct(NotNull({r.album : r \in rows}))}

\* a count of the rows of the table
tracksCountOfRows(rows) == {Cardinality(rows)}

tracksCount(rows) == {CountDistinct({r.id : r \in rows})}

\* a sum over all the rows of the table
tracksDurationOfRows(rows) == {SumOf([r \in rows |-> r.duration])}

\* SELECT SUM(duration) FROM (SELECT duration from tracks GROUP BY id)
tracksDuration(rows) == {SumOf(g) : g \in DurationById(rows)}

randomMediaArt(rows) == RandomPath(rows)

randomMediaArtForArtist(rows, artist) == RandomPath({r \in rows : SqlEquals(r.artist, artist)})

randomMediaArtForAlbum(rows, artist, album) ==
    RandomPath({r \in rows : SqlEquals(r.artist, artist) /\ SqlEquals(r.album, album)})

randomMediaArtForGenre(rows, genre) == RandomPath({r \in rows : SqlEquals(r.genre, genre)})

\* the calls, with the arguments the model makes them with
CountCalls == {"artistsCount", "albumsCount", "tracksCount", "tracksDuration"}

PathCalls ==
    {"randomMediaArt", "randomMediaArtForArtist", "randomMediaArtForAlbum",
     "randomMediaArtForGenre"}

Counts(call, rows) ==
    CASE call = "artistsCount" -> artistsCount(rows)
      [] call = "albumsCount" -> albumsCount(rows)
      [] call = "tracksCount" -> tracksCount(rows)
      [] call = "tracksDuration" -> tracksDuration(rows)
      [] OTHER -> {0}

Paths(call, rows) ==
    CASE call = "randomMediaArt" -> randomMediaArt(rows)
      [] call = "randomMediaArtForArtist" -> randomMediaArtForArtist(rows, "A")
      [] call = "randomMediaArtForAlbum" -> randomMediaArtForAlbum(rows, "A", "L")
      [] call = "randomMediaArtForGenre" -> randomMediaArtForGenre(rows, "X")
      [] OTHER -> {Empty}

Answer(call, ok, count, path) == [call |-> call, ok |-> ok, count |-> count, path |-> path]

\* what a call can return: 0 or QString() if (!mDatabaseInitialized) and when
\* the query gives no row, the value of the query otherwise
Answers(call, rows) ==
    IF ~store.mDatabaseInitialized THEN {Answer(call, TRUE, 0, Empty)}
    ELSE {Answer(call, TRUE, count, path) : count \in Counts(call, rows), path \in Paths(call, rows)}
           \cup {Answer(call, FALSE, 0, Empty) : ok \in Outcomes \ {TRUE}}

(***************************************************************************)
(* Actions of the main thread.                                             *)
(***************************************************************************)
\* the history of a scan is dropped once its end has been observed
NoHist ==
    [phase |-> "none", pre |-> {}, preCache |-> {}, visited |-> {}, alloc |-> << >>,
     group |-> << >>, rejected |-> FALSE, dirty |-> FALSE, quiet |-> 0, failed |-> {},
     found |-> [columns |-> NoTable, rows |-> {}], read |-> {}, inflight |-> {},
     cancelled |-> FALSE, recovering |-> FALSE, single |-> {},
     snap |-> [rows |-> {}, cache |-> {}]]

\* an event disturbs the scan in progress, if there is one, and ends a run of
\* undisturbed complete scans
Disturbed ==
    [hist EXCEPT !.dirty = scanPc # "idle", !.quiet = 0, !.snap = NoHist.snap,
                 !.cancelled = FALSE, !.single = {}]

ScanForgotten ==
    [NoHist EXCEPT !.quiet = hist.quiet, !.snap = hist.snap, !.found = hist.found,
                   !.cancelled = hist.cancelled,
                   !.single = IF hist.cancelled THEN hist.single ELSE {}]

\* what the handler leaves of the history: the failures of the scan it ends,
\* until the next scan is accepted
ScanEnded == [ScanForgotten EXCEPT !.failed = hist.failed]

\* a handler whose databaseChanged is not connected to mediaArtChanged
FinishedSignalsUnconnected == <<"updatingChanged", "databaseChanged">>

\* the signals of the handler: mUpdating = false; emit updatingChanged();
\* emit databaseChanged(), and mediaArtChanged through the connection
FinishedSignals == <<"updatingChanged", "databaseChanged", "mediaArtChanged">>

\* a guard that lets every call through
ScanInProgressIgnored == FALSE

\* the guard of updateDatabase: if (mUpdating) return
ScanInProgress == mUpdating

\* the rescan connection holds a lock on the database file from its first read
\* to its commit; a statement of the default connection fails meanwhile
ScanHoldsLock == scanPc \in {"walk", "delete", "nullify", "sweep", "commit"}

\* the history after a call on the main thread: the call is kept when it came
\* between the load of a scan and its commit
Interleaved(call) ==
    [Disturbed EXCEPT !.inflight = IF ScanHoldsLock THEN @ \cup {call} ELSE @]

\* a statement of the default connection can run: the connection was opened
\* by initDatabase, the table is there and no scan holds the lock
DefaultConnectionWrites == store.open /\ store.columns # NoTable /\ ~ScanHoldsLock

\* LibraryUtils::updateDatabase, the part that runs in the caller
updateDatabase ==
    /\ app = "running"
    /\ IF ScanInProgress
       THEN /\ emitted' = << >>
            /\ hist' = [hist EXCEPT !.rejected = TRUE]
            /\ UNCHANGED <<mUpdating, workers, scanPc, loc, used>>
       ELSE /\ used.scans < MaxScans
            /\ mUpdating' = TRUE
            /\ emitted' = <<"updatingChanged">>
            /\ workers' = workers + 1
            /\ scanPc' = "start"
            /\ loc' = NoLoc
            /\ used' = [used EXCEPT !.scans = @ + 1]
            /\ hist' = [ScanForgotten EXCEPT !.phase = "running"]
    /\ UNCHANGED <<envVars, committed, tx, app, faults, world>>
    /\ SameStore

\* the handler of QFutureWatcher::finished, run by the event loop of the main
\* thread; databaseChanged is connected to mediaArtChanged in the constructor
finishedHandler ==
    /\ app = "running"
    /\ scanPc = "finished"
    /\ mUpdating' = FALSE
    /\ emitted' = FinishedSignals
    /\ scanPc' = "idle"
    /\ loc' = NoLoc
    /\ hist' = ScanEnded
    /\ UNCHANGED <<envVars, committed, tx, app, workers, faults, world, used>>
    /\ SameStore

\* the (artist, album) pairs setMediaArt is called with
ArtistAlbums == {<<"A", "">>, <<"B", "">>, <<"A", "L">>}

\* UPDATE tracks SET mediaArt = ? WHERE artist = ? AND album = ?
SetArtWhere(rows, artist, album, newFilePath) ==
    {IF SqlEquals(r.artist, artist) /\ SqlEquals(r.album, album)
     THEN [r EXCEPT !.mediaArt = newFilePath] ELSE r : r \in rows}

\* LibraryUtils::setMediaArt(artist, album, mediaArt), with the outcomes of
\* mkpath, QFile::copy and query.exec()
setMediaArtCall(artist, album, okMkpath, okCopy, okExec) ==
    /\ app = "running"
    /\ used.events < MaxEvents
    /\ LET newFilePath == ManualPath(used.events + 1)
           exec == okExec /\ DefaultConnectionWrites
       IN  /\ used' = [used EXCEPT !.events = @ + 1]
           /\ cacheDir' = (cacheDir \/ okMkpath)
           /\ IF ~cacheDir' \/ ~okCopy
              THEN /\ emitted' = << >>
                   /\ UNCHANGED <<cache, committed, tx>>
              ELSE /\ cache' = cache \cup {newFilePath}
                   /\ committed' = IF exec THEN SetArtWhere(committed, artist, album, newFilePath)
                                   ELSE committed
                   /\ tx' = IF exec THEN committed' ELSE tx
                   /\ emitted' = IF exec THEN <<"mediaArtChanged">> ELSE << >>
    /\ hist' = Interleaved("setMediaArt")
    /\ UNCHANGED <<fs, dirImage, noMedia, settings, mUpdating, app, workers, scanPc, loc,
                   faults, world>>
    /\ SameStore

\* LibraryUtils::setMediaArt
setMediaArt ==
    \E aa \in ArtistAlbums, okMkpath \in Outcomes, okCopy \in Outcomes, okExec \in Outcomes :
        setMediaArtCall(aa[1], aa[2], okMkpath, okCopy, okExec)

\* LibraryUtils::resetDatabase
resetDatabase ==
    /\ app = "running"
    /\ used.events < MaxEvents
    /\ used' = [used EXCEPT !.events = @ + 1]
    /\ \E okDelete \in Outcomes, okRemove \in Outcomes :
         /\ committed' = IF okDelete /\ DefaultConnectionWrites THEN {} ELSE committed
         /\ tx' = IF okDelete /\ DefaultConnectionWrites THEN {} ELSE tx
         /\ cache' = IF okRemove THEN {} ELSE cache
         /\ cacheDir' = IF okRemove THEN FALSE ELSE cacheDir
    /\ emitted' = <<"databaseChanged", "mediaArtChanged">>
    /\ hist' = Interleaved("resetDatabase")
    /\ UNCHANGED <<fs, dirImage, noMedia, settings, mUpdating, app, workers, scanPc, loc,
                   faults, world>>
    /\ SameStore

\* one of the aggregate operations is called, while no scan runs; it reads the
\* database file
aggregate ==
    /\ app = "running" /\ workers = 0 /\ scanPc = "idle"
    /\ \E call \in world.calls : returned' \in Answers(call, committed)
    /\ emitted' = << >>
    /\ UNCHANGED <<envVars, progVars, faults, world, used, hist, store, nullification>>

\* the application quits: qApp becomes null and the process waits for the
\* thread pool before it exits
quit ==
    /\ app = "running"
    /\ used.events < MaxEvents
    /\ used' = [used EXCEPT !.events = @ + 1]
    /\ app' = "quitting"
    /\ emitted' = << >>
    /\ UNCHANGED <<envVars, committed, tx, mUpdating, workers, scanPc, loc, faults, world,
                   hist>>
    /\ SameStore

\* the process is killed: the open transaction is lost, files stay as they are
kill ==
    /\ app \in {"running", "quitting"}
    /\ workers > 0
    /\ used.events < MaxEvents
    /\ used' = [used EXCEPT !.events = @ + 1]
    /\ app' = "dead"
    /\ workers' = 0
    /\ scanPc' = "idle"
    /\ tx' = committed
    /\ mUpdating' = FALSE
    /\ loc' = NoLoc
    /\ emitted' = << >>
    /\ hist' = [hist EXCEPT !.phase = IF @ = "loaded" THEN "killed" ELSE "none",
                            !.quiet = 0, !.snap = NoHist.snap,
                            !.cancelled = FALSE, !.single = {}]
    /\ UNCHANGED <<envVars, committed, faults, world>>
    /\ SameStore

\* the application is started: LibraryUtils::LibraryUtils, which calls
\* initDatabase; the history keeps the table and the rows it found
restartWith(okMkpath, okOpen, okDrop, okCreate) ==
    /\ \/ app = "dead"
       \/ app = "quitting" /\ workers = 0
    /\ app' = "running"
    /\ mUpdating' = FALSE
    /\ scanPc' = "idle"
    /\ loc' = NoLoc
    /\ emitted' = << >>
    /\ hist' = [ScanForgotten EXCEPT !.found = [columns |-> store.columns, rows |-> committed]]
    /\ LET init == initDatabase(store.columns, committed, okMkpath, okOpen, okDrop, okCreate)
       IN  /\ store' = init.store
           /\ committed' = init.rows
           /\ tx' = init.rows
    /\ returned' = NoValue
    /\ UNCHANGED <<envVars, workers, faults, world, used, nullification>>

restart ==
    \E okMkpath \in Outcomes, okOpen \in Outcomes, okDrop \in Outcomes, okCreate \in Outcomes :
        restartWith(okMkpath, okOpen, okDrop, okCreate)

(***************************************************************************)
(* Actions of the scan worker.                                             *)
(***************************************************************************)
\* the worker returns: the future finishes.  The history keeps how the scan
\* ended, and the index and cache directory that the first of a run of
\* undisturbed complete scans left.
WorkerReturns(h, phase, fileRows, cacheFiles) ==
    /\ scanPc' = "finished"
    /\ workers' = workers - 1
    /\ hist' = [h EXCEPT
                  !.phase = phase,
                  !.cancelled = (phase = "cancelled" /\ ~h.dirty /\ ~h.recovering),
                  !.quiet = IF phase = "complete" /\ ~h.dirty
                            THEN (IF @ = 0 THEN 1 ELSE 2) ELSE 0,
                  !.snap = IF phase # "complete" \/ h.dirty THEN NoHist.snap
                           ELSE IF h.quiet = 0
                           THEN [rows |-> fileRows, cache |-> cacheFiles] ELSE @]

\* the locals after the pre-scan load, the embedded art index and the settings
Loaded(group) ==
    LET l0 == [NoLoc EXCEPT
                 !.libraryDirectories = prepareDirs(settings.libraryDirectories),
                 !.blacklistedDirectories = prepareDirs(settings.blacklistedDirectories)]
        l1 == LoadRows(l0, SortedIds(IdsOf(committed)), group)
    IN  NextRoot([l1 EXCEPT !.embeddedMediaArtFiles = EmbeddedIndex(cache),
                            !.preferDirectoryMediaArt = settings.useDirectoryMediaArt])

\* a failure of the scan: the statement or file operation, and the file of the
\* walk entry it was run for (empty for the steps outside the walk)
Failure(stmt, file) == [stmt |-> stmt, file |-> file]

FailureIf(failed, stmt) == IF failed THEN {Failure(stmt, Empty)} ELSE {}

\* a start that goes on whatever failed
StartFailureIgnored(okOpen, okSelect) == FALSE

\* the worker returns at once: if (!db.open()) return, and the return after
\* the failed SELECT of the rows
StartFails(okOpen, okSelect) == ~okOpen \/ ~okSelect

\* every statement and file operation succeeds
AllSucceed == [delete |-> TRUE, insert |-> TRUE, update |-> TRUE, open |-> TRUE]

\* the walk after the iteration for the entry e
AfterEntry(w, e) ==
    LET res == ProcessEntry(e, [w.loc EXCEPT !.todo = @ \ {e}], w.tx, w.cache, AllSucceed)
    IN  [res EXCEPT !.loc = NextRoot(res.loc)]

\* the locals, the transaction and the cache directory at the end of a walk
\* that nothing interrupts, for every order in which the iterators may yield
\* the entries
RECURSIVE WalkResults(_)
WalkResults(w) ==
    IF w.loc.todo = {} THEN {w}
    ELSE UNION {UNION {WalkResults(next) : next \in {AfterEntry(w, e)}} : e \in w.loc.todo}

\* the index and the cache directory after the bulk delete, the
\* nullification, the sweep and the commit that follow a walk
AfterWalk(w) ==
    LET rows == Nullify(BulkDelete(w.tx, w.loc.filesToRemove, TRUE), w.loc, TRUE)
    IN  [rows |-> Commit(committed, rows),
         cache |-> Sweep(w.cache, AllMediaArt(rows, TRUE), TRUE)]

\* the outcomes of a scan that has loaded the rows of this state and that
\* runs to its end without a failure and without interference
SingleScanResults ==
    UNION {UNION {{AfterWalk(w) : w \in WalkResults(start)} :
                  start \in {Step(Loaded(group), committed, cache, FALSE)}} :
           group \in GroupById(committed)}

\* the history with the outcomes that the scan in progress can have, taken
\* before the first entry of its walk in the behaviours where nothing fails;
\* a scan that follows a cancelled one keeps those of the cancelled one
SingleCaptured ==
    IF hist.visited = {} /\ ~hist.recovering /\ ~faults
    THEN [hist EXCEPT !.single = SingleScanResults]
    ELSE hist

\* open the database, begin the transaction, create the art directory, read
\* the settings, load the rows and index the embedded art files
scanStart ==
    /\ scanPc = "start"
    /\ \E okOpen \in Outcomes, okMkpath \in Outcomes, okSelect \in Statements,
          group \in GroupById(committed) :
         LET h == [hist EXCEPT
                     !.pre = committed, !.preCache = cache,
                     !.failed = IF ~okOpen THEN FailureIf(TRUE, "open")
                                ELSE FailureIf(~cacheDir /\ ~okMkpath, "mkpath")
                                       \cup FailureIf(~okSelect, "select")]
         IN  IF StartFails(okOpen, okSelect)
             THEN /\ WorkerReturns(h, "failed", committed, cache)
                  /\ cacheDir' = (cacheDir \/ (okOpen /\ okMkpath))
                  /\ tx' = IF okOpen THEN committed ELSE tx
                  /\ UNCHANGED loc
             ELSE /\ cacheDir' = (cacheDir \/ okMkpath)
                  /\ tx' = committed
                  /\ loc' = Loaded(group)
                  /\ scanPc' = PcAfterEntry(loc')
                  /\ hist' = [h EXCEPT !.phase = "loaded",
                                       !.visited = {}, !.alloc = << >>,
                                       !.group = group,
                                       !.cancelled = FALSE,
                                       !.recovering = h.cancelled]
                  /\ UNCHANGED workers
    /\ emitted' = << >>
    /\ UNCHANGED <<fs, dirImage, noMedia, cache, settings, committed, mUpdating, app,
                   faults, world, used>>
    /\ SameStore

\* if (!qApp) { db.commit(); return; }
walkCancel ==
    /\ scanPc = "walk"
    /\ app = "quitting"
    /\ committed' = Commit(committed, tx)
    /\ WorkerReturns(SingleCaptured, "cancelled", committed', cache)
    /\ emitted' = << >>
    /\ UNCHANGED <<envVars, tx, mUpdating, app, loc, faults, world, used>>
    /\ SameStore

\* the statements and file operations that ran for the entry and failed: those
\* whose success would have made the iteration end otherwise
FailedIn(e, l, db, cacheFiles, ok) ==
    {Failure(stmt, e) : stmt \in {x \in DOMAIN ok :
        /\ ~ok[x]
        /\ ProcessEntry(e, l, db, cacheFiles, [ok EXCEPT ![x] = TRUE])
              # ProcessEntry(e, l, db, cacheFiles, ok)}}

\* one entry of the walk
walkEntry ==
    /\ scanPc = "walk"
    /\ app = "running"
    /\ \E e \in loc.todo, okDelete \in Statements, okInsert \in Statements,
          okUpdate \in Statements, okOpen \in Outcomes :
         LET ok == [delete |-> okDelete, insert |-> okInsert, update |-> okUpdate,
                    open |-> okOpen]
             res == ProcessEntry(e, [loc EXCEPT !.todo = @ \ {e}], tx, cache, ok)
         IN  /\ loc' = NextRoot(res.loc)
             /\ tx' = res.tx
             /\ cache' = res.cache
             /\ scanPc' = PcAfterEntry(loc')
             /\ hist' = [SingleCaptured EXCEPT
                           !.visited = @ \cup {e},
                           !.read = IF res.read THEN @ \cup {e} ELSE @,
                           !.alloc = IF res.loc.lastId # loc.lastId
                                     THEN Append(@, <<e, res.loc.lastId>>) ELSE @,
                           !.failed = @ \cup FailedIn(e, [loc EXCEPT !.todo = @ \ {e}], tx,
                                                      cache, ok)]
    /\ emitted' = << >>
    /\ UNCHANGED <<fs, dirImage, noMedia, cacheDir, settings, committed, mUpdating, app,
                   workers, faults, world, used>>
    /\ SameStore

\* the bulk delete of filesToRemove
postDelete ==
    /\ scanPc = "delete"
    /\ \E okDelete \in Statements :
         /\ tx' = BulkDelete(tx, loc.filesToRemove, okDelete)
         /\ hist' = [hist EXCEPT !.failed =
                       @ \cup FailureIf(~okDelete /\ loc.filesToRemove # << >>, "bulk delete")]
    /\ scanPc' = "nullify"
    /\ emitted' = << >>
    /\ UNCHANGED <<envVars, committed, mUpdating, app, workers, loc, faults, world, used>>
    /\ SameStore

\* the nullification for a deletedMediaArt of any size: nothing when
\* deletedMediaArtCount is 0, the statements of the loop otherwise
nullifyDeletedMediaArt ==
    /\ ~nullification.done
    /\ nullification' = [nullification EXCEPT
                            !.statements = IF nullification.deletedMediaArtCount > 0
                                           THEN NullifyStatements(0, nullification.max)
                                           ELSE << >>,
                            !.done = TRUE]
    /\ UNCHANGED <<envVars, progVars, emitted, faults, world, used, hist, store, returned>>

\* the art paths that were missing at load are set to ''
postNullify ==
    /\ scanPc = "nullify"
    /\ \E okUpdate \in Statements :
         /\ tx' = Nullify(tx, loc, okUpdate)
         /\ hist' = [hist EXCEPT !.failed =
                       @ \cup FailureIf(~okUpdate /\ loc.deletedMediaArtCount > 0, "nullify")]
    /\ scanPc' = "sweep"
    /\ emitted' = << >>
    /\ UNCHANGED <<envVars, committed, mUpdating, app, workers, loc, faults, world, used>>
    /\ SameStore

\* the files of the cache directory that no row references are removed
postSweep ==
    /\ scanPc = "sweep"
    /\ \E okSelect \in Statements, okRemove \in Outcomes :
         /\ cache' = Sweep(cache, AllMediaArt(tx, okSelect), okRemove)
         /\ hist' = [hist EXCEPT !.failed =
                       @ \cup FailureIf(~okSelect, "select distinct")
                         \cup FailureIf(~okRemove /\ ~(cache \subseteq AllMediaArt(tx, okSelect)),
                                        "remove")]
    /\ scanPc' = "commit"
    /\ emitted' = << >>
    /\ UNCHANGED <<fs, dirImage, noMedia, cacheDir, settings, committed, tx, mUpdating, app,
                   workers, loc, faults, world, used>>
    /\ SameStore

\* db.commit(), and the worker returns
postCommit ==
    /\ scanPc = "commit"
    /\ committed' = Commit(committed, tx)
    /\ WorkerReturns(hist, "complete", committed', cache)
    /\ emitted' = << >>
    /\ UNCHANGED <<envVars, tx, mUpdating, app, loc, faults, world, used>>
    /\ SameStore

(***************************************************************************)
(* The environment: the filesystem and the settings change while no scan   *)
(* runs.                                                                   *)
(***************************************************************************)
NoFile == [kind |-> "none", mtime |-> 0, mime |-> "", tags |-> "", art |-> ""]

Unreadable == [kind |-> "noread", mtime |-> 1, mime |-> "audio/mpeg", tags |-> "single",
               art |-> ""]

Audio(mtime, tags, art) ==
    [kind |-> "file", mtime |-> mtime, mime |-> "audio/mpeg", tags |-> tags, art |-> art]

NotAudio(mtime) ==
    [kind |-> "file", mtime |-> mtime, mime |-> "text/plain", tags |-> "", art |-> ""]

Directory == [kind |-> "dir", mtime |-> 1, mime |-> "inode/directory", tags |-> "", art |-> ""]


Settings(libraryDirectories, blacklistedDirectories, useDirectoryMediaArt) ==
    [libraryDirectories |-> libraryDirectories,
     blacklistedDirectories |-> blacklistedDirectories,
     useDirectoryMediaArt |-> useDirectoryMediaArt]

Quiet == app = "running" /\ workers = 0 /\ scanPc = "idle"

EnvStep ==
    /\ Quiet
    /\ used.events < MaxEvents
    /\ used' = [used EXCEPT !.events = @ + 1]
    /\ hist' = Disturbed
    /\ emitted' = << >>
    /\ UNCHANGED <<progVars, faults, world>>
    /\ SameStore

\* a candidate file is created, removed, rewritten or made unreadable
envFile ==
    /\ EnvStep
    /\ \E f \in DOMAIN fs, s \in world.fileStates :
         /\ s # fs[f]
         /\ fs' = [fs EXCEPT ![f] = s]
    /\ UNCHANGED <<dirImage, noMedia, cacheDir, cache, settings>>

\* an image or a .nomedia file is put into a directory or taken out of it
envDirectory ==
    /\ EnvStep
    /\ \E d \in world.dirs :
         \/ /\ dirImage' = IF d \in dirImage THEN dirImage \ {d} ELSE dirImage \cup {d}
            /\ UNCHANGED noMedia
         \/ /\ noMedia' = IF d \in noMedia THEN noMedia \ {d} ELSE noMedia \cup {d}
            /\ UNCHANGED dirImage
    /\ UNCHANGED <<fs, cacheDir, cache, settings>>

\* the user changes the library directories, the blacklist or the preference
envSettings ==
    /\ EnvStep
    /\ \E l \in world.libraries, b \in world.blacklists, p \in BOOLEAN :
         /\ Settings(l, b, p) # settings
         /\ \/ l = settings.libraryDirectories /\ b = settings.blacklistedDirectories
            \/ l = settings.libraryDirectories /\ p = settings.useDirectoryMediaArt
            \/ b = settings.blacklistedDirectories /\ p = settings.useDirectoryMediaArt
         /\ settings' = Settings(l, b, p)
    /\ UNCHANGED <<fs, dirImage, noMedia, cacheDir, cache>>

\* a file of the cache directory is removed from outside
envCache ==
    /\ EnvStep
    /\ \E path \in cache : cache' = cache \ {path}
    /\ UNCHANGED <<fs, dirImage, noMedia, cacheDir, settings>>

(***************************************************************************)
(* Specifications.  The database is empty at first; the filesystem and the *)
(* settings are drawn from the sets given.                                 *)
(***************************************************************************)
\* the state after construction on an empty data directory, where initDatabase
\* has created the table, with so many events of the budget spent
NoNullification == [max |-> 0, deletedMediaArtCount |-> 0, statements |-> << >>, done |-> TRUE]

Constructed(events) ==
    /\ cacheDir = FALSE
    /\ cache = {}
    /\ committed = {}
    /\ tx = {}
    /\ mUpdating = FALSE
    /\ app = "running"
    /\ workers = 0
    /\ scanPc = "idle"
    /\ loc = NoLoc
    /\ emitted = << >>
    /\ used = [scans |-> 0, events |-> events]
    /\ hist = NoHist
    /\ store = Store(fields, TRUE, TRUE, TRUE)
    /\ returned = NoValue
    /\ nullification = NoNullification

InitProgram == Constructed(0)

\* the filesystem, the settings and the changes the environment makes
World(fileStates, libraries, blacklists, dirs) ==
    [fileStates |-> fileStates, libraries |-> libraries, blacklists |-> blacklists,
     dirs |-> dirs, calls |-> {"tracksCount"}]

\* two files that may share their embedded art, under one library directory
Init ==
    /\ InitProgram
    /\ faults = FALSE
    /\ world = World({NoFile, Audio(1, "single", "png1"), Audio(2, "single", "")},
                     {<<DirM>>}, {<< >>}, {DirR})
    /\ fs \in {[f \in Files |-> IF f = FileX THEN Audio(1, "multi", "png1") ELSE y] :
                y \in {NoFile, Audio(1, "single", "png1")}}
    /\ dirImage = {}
    /\ noMedia = {}
    /\ settings = Settings(<<DirM>>, << >>, FALSE)

\* every combination of directory image, embedded art and art preference for
\* one file with several artists and an album
InitArt ==
    /\ InitProgram
    /\ faults = FALSE
    /\ world = World({NoFile, Audio(2, "single", "")}, {<<DirM>>}, {<< >>}, {DirR})
    /\ fs \in {[f \in Files |-> IF f = FileX THEN Audio(1, "duo", a) ELSE NoFile] :
                a \in {"", "png1", "raw3"}}
    /\ dirImage \in SUBSET {DirR}
    /\ noMedia = {}
    /\ settings \in {Settings(<<DirM>>, << >>, p) : p \in BOOLEAN}

\* library directories that are equal after normalisation or nested, and a
\* blacklisted directory with a sibling that shares its prefix
LibraryChoices == {<<DirM>>, <<DirM, Append(DirM, "/")>>, <<DirM, DirR>>}

BlacklistChoices == {<< >>, <<DirR>>}

InitDirs ==
    /\ InitProgram
    /\ faults = FALSE
    /\ world = World({NoFile, Audio(2, "single", "")}, LibraryChoices, BlacklistChoices, {DirR})
    /\ fs = [f \in Files |-> Audio(1, "single", "")]
    /\ dirImage = {}
    /\ noMedia = {}
    /\ settings \in {Settings(l, b, FALSE) : l \in LibraryChoices, b \in BlacklistChoices}

\* one library directory; the blacklist is empty or holds the directory whose
\* name is a prefix of its sibling's
InitBlacklist ==
    /\ InitProgram
    /\ faults = FALSE
    /\ world = World({NoFile, Audio(2, "single", "")}, {<<DirM>>}, BlacklistChoices, {DirR})
    /\ fs = [f \in Files |-> Audio(1, "single", "")]
    /\ dirImage = {}
    /\ noMedia = {}
    /\ settings \in {Settings(<<DirM>>, b, FALSE) : b \in BlacklistChoices}

\* two files with embedded art of known types, with equal or different bytes
InitEmbedded ==
    /\ InitProgram
    /\ faults = FALSE
    /\ world = World({NoFile, Audio(2, "single", "png1")}, {<<DirM>>}, {<< >>}, {DirR})
    /\ fs \in {[f \in Files |-> IF f = FileX THEN Audio(1, "single", "png1") ELSE y] :
                y \in {Audio(1, "single", "png1"), Audio(1, "single", "jpg2")}}
    /\ dirImage = {}
    /\ noMedia = {}
    /\ settings = Settings(<<DirM>>, << >>, FALSE)

\* a file that may vanish, become a directory, unreadable or something that
\* is not audio, in a directory that may get a .nomedia file, be blacklisted or
\* be left out of the library, and a file with audio content whose extension
\* is not an audio extension
ExcludedLibraryChoices == {<<DirM>>, <<DirR2>>}

InitExcluded ==
    /\ InitProgram
    /\ faults = FALSE
    /\ world = World({NoFile, Unreadable, Directory, NotAudio(1)},
                     ExcludedLibraryChoices, BlacklistChoices, {DirR})
    /\ fs = (FileX :> Audio(1, "single", "") @@ FileZ :> Audio(1, "single", ""))
    /\ dirImage = {}
    /\ noMedia = {}
    /\ settings = Settings(<<DirM>>, << >>, FALSE)

\* the most missing art paths: enough for a third statement
MaxMissing == 2000

\* a load has found any number of distinct art paths missing, each counted
\* once in deletedMediaArtCount
InitChunks ==
    /\ cacheDir = FALSE
    /\ cache = {}
    /\ committed = {}
    /\ tx = {}
    /\ mUpdating = FALSE
    /\ app = "running"
    /\ workers = 0
    /\ scanPc = "idle"
    /\ loc = NoLoc
    /\ emitted = << >>
    /\ used = [scans |-> 0, events |-> 0]
    /\ hist = NoHist
    /\ store = Store(fields, TRUE, TRUE, TRUE)
    /\ returned = NoValue
    /\ faults = FALSE
    /\ world = World({NoFile}, {<<DirM>>}, {<< >>}, {DirR})
    /\ fs = [f \in Files |-> NoFile]
    /\ dirImage = {}
    /\ noMedia = {}
    /\ settings = Settings(<<DirM>>, << >>, FALSE)
    /\ \E n \in 0..MaxMissing :
         nullification = [max |-> n, deletedMediaArtCount |-> n, statements |-> << >>,
                          done |-> FALSE]

\* one indexed file that may go, change or lose its tags, and statements, opens and
\* file operations that may fail; one event less than in the other
\* specifications
InitFaults ==
    /\ Constructed(MaxEvents - 1)
    /\ faults = TRUE
    /\ world = World({NoFile, Audio(2, "single", ""), Audio(2, "", "")},
                     {<<DirM>>}, {<< >>}, {DirR})
    /\ fs = [f \in Files |-> IF f = FileX THEN Audio(1, "single", "png1") ELSE NoFile]
    /\ dirImage = {}
    /\ noMedia = {}
    /\ settings = Settings(<<DirM>>, << >>, FALSE)

\* the tables a database file may hold before the application starts: none,
\* the expected one, one with its columns in another order, one of an older
\* version without mediaArt, one with a column of another name
TableChoices ==
    {NoTable, fields,
     <<fields[Len(fields)]>> \o SubSeq(fields, 1, Len(fields) - 1),
     SubSeq(fields, 1, Len(fields) - 1),
     [fields EXCEPT ![Len(fields)] = "cover"]}

\* the application is not running; the database file holds one of the tables,
\* with the rows of a file of two artists or none; opens and statements may fail
InitSchema ==
    /\ cacheDir = FALSE
    /\ cache = {}
    /\ \E columns \in TableChoices :
         /\ store = Store(columns, FALSE, FALSE, FALSE)
         /\ committed \in IF columns = NoTable THEN {{}}
                           ELSE {{}, InsertedRows(0, FileX, 1, TagInfo("duo"), Empty)}
    /\ tx = committed
    /\ mUpdating = FALSE
    /\ app = "dead"
    /\ workers = 0
    /\ scanPc = "idle"
    /\ loc = NoLoc
    /\ emitted = << >>
    /\ used = [scans |-> MaxScans - 1, events |-> MaxEvents - 1]
    /\ hist = NoHist
    /\ returned = NoValue
    /\ nullification = NoNullification
    /\ faults = TRUE
    /\ world = [World({NoFile}, {<<DirM>>}, {<< >>}, {DirR}) EXCEPT !.calls = CountCalls \cup PathCalls]
    /\ fs = [f \in Files |-> IF f = FileX THEN Audio(1, "duo", "png1") ELSE NoFile]
    /\ dirImage = {}
    /\ noMedia = {}
    /\ settings = Settings(<<DirM>>, << >>, FALSE)

Next ==
    \/ updateDatabase
    \/ finishedHandler
    \/ setMediaArt
    \/ resetDatabase
    \/ aggregate
    \/ quit
    \/ kill
    \/ restart
    \/ scanStart
    \/ walkCancel
    \/ walkEntry
    \/ postDelete
    \/ postNullify
    \/ postSweep
    \/ postCommit
    \/ envFile
    \/ envDirectory
    \/ envSettings
    \/ envCache

Spec == Init /\ [][Next]_vars

SpecArt == InitArt /\ [][Next]_vars

SpecDirs == InitDirs /\ [][Next]_vars

SpecBlacklist == InitBlacklist /\ [][Next]_vars

SpecEmbedded == InitEmbedded /\ [][Next]_vars

SpecExcluded == InitExcluded /\ [][Next]_vars

\* the nullification alone, for every size of deletedMediaArt
NextChunks == nullifyDeletedMediaArt

SpecChunks == InitChunks /\ [][NextChunks]_vars

\* the worker runs in the global thread pool and always goes on; the handler of
\* the finished signal is run by the event loop as long as it is running
WorkerStep ==
    \/ scanStart
    \/ walkCancel
    \/ walkEntry
    \/ postDelete
    \/ postNullify
    \/ postSweep
    \/ postCommit

WorkerFairness == WF_vars(WorkerStep) /\ WF_vars(finishedHandler)

SpecFaults == InitFaults /\ [][Next]_vars /\ WorkerFairness

SpecSchema == InitSchema /\ [][Next]_vars

(***************************************************************************)
(* Properties.                                                             *)
(***************************************************************************)
\* the whole state but the signals of the last step and the history
ObservableState == <<envVars, progVars>>

\* C1: at most one scan worker runs at any time, and mUpdating is true as
\* long as a worker lives; a call of updateDatabase() while mUpdating is true
\* starts no worker, changes no state and emits no signal; while the process
\* runs, mUpdating is reset by the handler of the watcher only.
C1_AtMostOneScan ==
    /\ [](workers <= 1 /\ (workers > 0 => mUpdating))
    /\ [][(mUpdating /\ updateDatabase) =>
            (UNCHANGED ObservableState /\ emitted' = << >>)]_vars
    /\ [][(mUpdating /\ ~mUpdating' /\ app = "running" /\ app' = "running") =>
            (scanPc = "finished" /\ workers = 0 /\ scanPc' = "idle")]_vars

\* a call was rejected while the worker was in the walk
C1_Witness ==
    hist.rejected /\ mUpdating /\ workers = 1 /\ scanPc = "walk" /\ tx # committed

\* a complete scan has just ended and no event disturbed it
CompleteScan == scanPc = "finished" /\ hist.phase = "complete" /\ ~hist.dirty

\* C2: a complete scan that follows a complete scan, with no change of the
\* filesystem or of the settings and no other operation in between, leaves the
\* rows and the files of the cache directory as the first scan left them.
C2_Idempotent ==
    (CompleteScan /\ hist.quiet = 2) =>
        (committed = hist.snap.rows /\ cache = hist.snap.cache)

\* the scan has read the index and has not committed
Uncommitted == scanPc \in {"walk", "delete", "nullify", "sweep", "commit"}

\* the scan was cancelled by the shutdown of the application
Cancelled == scanPc = "finished" /\ hist.phase = "cancelled"

\* the file was in the index at load, and its modification time differs
ChangedInIndex(f) ==
    /\ f \in DOMAIN loc.files
    /\ fs[f].kind = "file"
    /\ fs[f].mtime # loc.modificationTimeHash[loc.files[f]]

\* the rows of a visited file are those of a file that was processed to the
\* end: a changed file of a supported type has rows of its current version and
\* none of the old one, a new file of a supported type that is not excluded
\* has rows
FullyProcessed(f, rows) ==
    /\ (ChangedInIndex(f) /\ fs[f].mime \in mimeTypesByContent) =>
          /\ \E r \in rows : r.id = loc.files[f] /\ r.filePath = f
                             /\ r.modificationTime = fs[f].mtime
          /\ \A r \in rows : r.id = loc.files[f] => r.modificationTime = fs[f].mtime
    /\ (/\ f \notin DOMAIN loc.files
        /\ fs[f].kind = "file"
        /\ fs[f].mime \in mimeTypesByContent
        /\ DirOf(f) \notin noMedia
        /\ settings.blacklistedDirectories = << >>) =>
          \E r \in rows : r.filePath = f /\ r.modificationTime = fs[f].mtime

\* C3: once qApp is null the walk processes no further entry and ends with a
\* commit of the transaction as it is; every file visited before is fully
\* processed in the transaction, and after the cancellation the committed
\* index is the transaction's, nothing written is rolled back.
C3_Cancellation ==
    /\ [][(scanPc = "walk" /\ app = "quitting" /\ app' = "quitting") =>
            /\ tx' = tx
            /\ scanPc' \in {"walk", "finished"}
            /\ scanPc' = "finished" => (committed' = tx /\ hist'.phase = "cancelled")]_vars
    /\ []((scanPc = "walk" \/ Cancelled) =>
            \A f \in hist.visited \cap Files : FullyProcessed(f, tx))
    /\ [](Cancelled => committed = tx)

\* the scan was cancelled after it had rewritten a changed file, with entries
\* of the walk left
C3_Witness ==
    /\ Cancelled
    /\ loc.todo # {}
    /\ \E f \in hist.visited \cap Files : ChangedInIndex(f) /\ fs[f].mime \in mimeTypesByContent
    /\ committed # hist.pre

\* C4: the effects of a scan become visible together: before the commit, and
\* when the worker is killed before the commit, the committed rows are those
\* of the scan's start and no file of the cache directory has been deleted;
\* when the worker has ended with a commit that changed the index, the rows
\* marked for deletion are gone.
C4_ScanAtomic ==
    /\ ((Uncommitted \/ hist.phase = "killed") /\ ~hist.dirty) =>
          (committed = hist.pre /\ hist.preCache \subseteq cache)
    /\ (scanPc = "finished" /\ hist.phase \in {"cancelled", "complete"} /\ ~hist.dirty
        /\ committed # hist.pre) =>
          \A r \in committed : \A i \in 1..Len(loc.filesToRemove) : r.id # loc.filesToRemove[i]

\* C5: after a complete scan the rows of a file that was in the index and is
\* no longer on disk are gone, each with all the rows of its id; its cached
\* artwork file is deleted when no row of the index references it, and is
\* still there when a row does.
C5_DeletionSweep ==
    CompleteScan =>
        \A r \in hist.pre :
            fs[r.filePath].kind = "none" =>
                /\ \A q \in committed : q.id # r.id
                /\ StartsWith(r.mediaArt, mMediaArtDirectory) =>
                      IF \E q \in committed : q.mediaArt = r.mediaArt
                      THEN r.mediaArt \in hist.preCache => r.mediaArt \in cache
                      ELSE r.mediaArt \notin cache

\* a complete scan found an indexed file gone and deleted its cached artwork
C5_Witness ==
    /\ CompleteScan
    /\ \E r \in hist.pre : /\ fs[r.filePath].kind = "none"
                           /\ r.mediaArt \in hist.preCache
                           /\ r.mediaArt \notin cache

\* the path lies in the directory d or below it (d with or without a final '/')
UnderDirectory(path, d) ==
    LET dir == IF EndsWithSlash(d) THEN SubSeq(d, 1, Len(d) - 1) ELSE d
    IN  /\ Len(path) > Len(dir)
        /\ SubSeq(path, 1, Len(dir)) = dir
        /\ path[Len(dir) + 1] = "/"

\* the file lies in a directory of the blacklist of the settings, or below
BlacklistedFile(f) ==
    \E i \in 1..Len(settings.blacklistedDirectories) :
        UnderDirectory(f, settings.blacklistedDirectories[i])

\* the file lies in a library directory of the settings, or below
LibraryFile(f) ==
    \E i \in 1..Len(settings.libraryDirectories) :
        UnderDirectory(f, settings.libraryDirectories[i])

\* C6: a scan inserts no row for a file in a blacklisted directory (the rows
\* such a file has in the transaction are rows it had before the scan), after
\* a complete scan such a file has no row, and a readable file of a supported
\* type in a library directory that is not in a blacklisted directory and
\* whose directory has no .nomedia file is in the index after a complete scan,
\* also when the name of its directory begins with the name of a blacklisted
\* directory.
C6_BlacklistContainment ==
    /\ (Uncommitted \/ CompleteScan) =>
          \A r \in tx : BlacklistedFile(r.filePath) => r \in hist.pre
    /\ CompleteScan =>
          /\ \A r \in committed : ~BlacklistedFile(r.filePath)
          /\ \A f \in Files :
                (/\ fs[f].kind = "file"
                 /\ fs[f].mime \in mimeTypesByContent
                 /\ LibraryFile(f)
                 /\ ~BlacklistedFile(f)
                 /\ DirOf(f) \notin noMedia) =>
                    \E r \in committed : r.filePath = f

\* a complete scan removed the rows of a file that was indexed before its
\* directory was blacklisted, and kept the file of the sibling directory
C6_Witness ==
    /\ CompleteScan
    /\ settings.blacklistedDirectories = <<DirR>>
    /\ \E r \in hist.pre : r.filePath = FileX
    /\ \A r \in committed : r.filePath # FileX
    /\ \E r \in committed : r.filePath = FileY

\* the path was given by setMediaArt
IsManualPath(path) == \E n \in 1..Len(Uuids) : path = ManualPath(n)

\* the same row of the table, whatever its mediaArt
SameRow(q, r) == [q EXCEPT !.mediaArt = Empty] = [r EXCEPT !.mediaArt = Empty]

\* C7: while a scan runs, every row that held a manual path at the scan's
\* start, with the image on disk and the row's file unchanged, holds that path.
C7_ManualArtProtected ==
    Uncommitted =>
        \A r \in hist.pre :
            (/\ IsManualPath(r.mediaArt)
             /\ r.mediaArt \in hist.preCache
             /\ fs[r.filePath].kind = "file"
             /\ fs[r.filePath].mtime = r.modificationTime) =>
                \A q \in tx : SameRow(q, r) => q.mediaArt = r.mediaArt

\* C8: after a complete scan no two rows with different ids have the same
\* filePath.
C8_UniqueFilePath ==
    CompleteScan =>
        \A r \in committed : \A q \in committed : r.filePath = q.filePath => r.id = q.id

\* C9: all rows with one filePath have the same id, modificationTime, title,
\* duration and mediaArt.
C9_RowGroup ==
    \A r \in committed : \A q \in committed :
        r.filePath = q.filePath =>
            /\ r.id = q.id
            /\ r.modificationTime = q.modificationTime
            /\ r.title = q.title
            /\ r.duration = q.duration
            /\ r.mediaArt = q.mediaArt

\* the scan has read the index and its locals are still there
ScanLocals == hist.phase \in {"loaded", "complete", "cancelled"} /\ scanPc # "idle"

\* C10: the ids a scan allocates are greater than every id of the index at
\* the scan's start and strictly increasing, the first id in an empty index is
\* 0, and a row the scan writes has an id allocated for its file in this scan
\* or an id its file had before.
C10_IdAllocation ==
    ScanLocals =>
        /\ \A i \in 1..Len(hist.alloc) :
              /\ \A r \in hist.pre : hist.alloc[i][2] > r.id
              /\ \A j \in 1..(i - 1) : hist.alloc[j][2] < hist.alloc[i][2]
        /\ (hist.pre = {} /\ hist.alloc # << >>) => hist.alloc[1][2] = 0
        /\ Uncommitted =>
              \A r \in tx \ hist.pre :
                  \/ \E i \in 1..Len(hist.alloc) : hist.alloc[i] = <<r.filePath, r.id>>
                  \/ \E q \in hist.pre : q.filePath = r.filePath /\ q.id = r.id

\* a scan allocated an id while the index held rows it had marked for deletion
C10_Witness ==
    /\ ScanLocals
    /\ hist.alloc # << >>
    /\ loc.filesToRemove # << >>
    /\ \E r \in hist.pre : r.id = loc.filesToRemove[1]

\* the files that got their rows as new files in the scan in progress, with
\* the filesystem, the cache directory and the settings as they were at its start
NewInScan == {hist.alloc[i] : i \in 1..Len(hist.alloc)}

UndisturbedScan == Uncommitted /\ hist.phase = "loaded" /\ ~hist.dirty

\* the image of the directory of f, empty when it has none
DirectoryArt(f) == IF DirOf(f) \in dirImage THEN DirImage(DirOf(f)) ELSE Empty

\* the embedded art of f can be persisted: the type of its content is known
Persistable(f) == fs[f].art # "" /\ PreferredSuffix(fs[f].art) # Empty

\* C11 (as the code has it): the rows of a new file hold the directory image
\* when the file has one and either the directory is preferred or the file has
\* no embedded art; otherwise they hold the cache path of the embedded art
\* when the file has embedded art of a determinable type; otherwise nothing:
\* embedded art of an undeterminable type resolves to no art, also when the
\* directory has an image and the directory is not preferred.
C11_ArtPrecedence ==
    UndisturbedScan =>
        \A a \in NewInScan : \A r \in tx :
            r.id = a[2] =>
                valueToString(r.mediaArt) =
                    IF fs[a[1]].art # "" /\ (DirectoryArt(a[1]) = Empty
                                             \/ ~settings.useDirectoryMediaArt)
                    THEN (IF Persistable(a[1])
                          THEN EmbeddedPath(Md5(fs[a[1]].art), PreferredSuffix(fs[a[1]].art))
                          ELSE Empty)
                    ELSE DirectoryArt(a[1])

\* a new file with a directory image and embedded art of a known type was
\* given the cache path of its embedded art
C11_Witness ==
    /\ UndisturbedScan
    /\ \E a \in NewInScan :
          /\ DirectoryArt(a[1]) # Empty
          /\ Persistable(a[1])
          /\ ~settings.useDirectoryMediaArt
          /\ \E r \in tx : r.id = a[2] /\ Contains(r.mediaArt, "-embedded")

\* C11 (as stated): with an image in the directory and non-empty embedded art
\* the rows of a new file hold the directory image when the directory is
\* preferred and an embedded-art cache path when it is not; with one source
\* that source is used, with none the art is empty.
C11_AsStated ==
    UndisturbedScan =>
        \A a \in NewInScan : \A r \in tx :
            r.id = a[2] =>
                LET art == valueToString(r.mediaArt)
                    isEmbedded == StartsWith(art, mMediaArtDirectory)
                                  /\ Contains(art, "-embedded")
                IN  IF fs[a[1]].art # "" /\ (DirectoryArt(a[1]) = Empty
                                             \/ ~settings.useDirectoryMediaArt)
                    THEN isEmbedded
                    ELSE art = DirectoryArt(a[1])

\* the row holds the cache path of embedded art
HoldsEmbedded(r) ==
    StartsWith(r.mediaArt, mMediaArtDirectory) /\ Contains(r.mediaArt, "-embedded")

\* the row was written for the file as it is on disk now
Current(r) ==
    fs[r.filePath].kind = "file" /\ fs[r.filePath].mtime = r.modificationTime

\* the hashes for which the step from this state to the next writes a cache file
WrittenHashes == DOMAIN loc'.embeddedMediaArtFiles \ DOMAIN loc.embeddedMediaArtFiles

\* C12: rows written in any scan for files with the same embedded bytes hold
\* the same cache path and rows for files with different embedded bytes hold
\* different paths; an entry of the walk writes a cache file only for a hash
\* for which this scan has written none and for which the cache directory
\* held no file at the scan's start, and creates no other file.
C12_ContentAddressing ==
    /\ [](\A r \in tx : \A q \in tx :
            (HoldsEmbedded(r) /\ HoldsEmbedded(q) /\ Current(r) /\ Current(q)) =>
                (fs[r.filePath].art = fs[q.filePath].art <=> r.mediaArt = q.mediaArt))
    /\ [][(scanPc = "walk" /\ scanPc' # "idle" /\ loc' # loc) =>
            /\ \A h \in WrittenHashes :
                  /\ loc'.embeddedMediaArtFiles[h] \notin cache
                  /\ \A path \in hist.preCache :
                        Contains(path, "-embedded") => EmbeddedHashOf(path) # h
            /\ cache' \ cache = {loc'.embeddedMediaArtFiles[h] : h \in WrittenHashes}]_vars

\* two files with the same embedded bytes share one cache file, and a file
\* with other bytes has another
C12_Witness ==
    \E r \in tx : \E q \in tx :
        /\ HoldsEmbedded(r) /\ HoldsEmbedded(q) /\ Current(r) /\ Current(q)
        /\ r.filePath # q.filePath
        /\ r.mediaArt \in cache /\ q.mediaArt \in cache
        /\ (fs[r.filePath].art = fs[q.filePath].art \/ scanPc = "finished")

\* the values of a list of tags, the empty string standing for an empty list
ValuesOrEmpty(strings) ==
    IF strings = << >> THEN {""} ELSE {strings[i] : i \in 1..Len(strings)}

AtLeastOne(n) == IF n < 1 THEN 1 ELSE n

\* C13: the rows inserted for a new file are max(1,|artists|) *
\* max(1,|albums|) * max(1,|genres|) rows, one per combination of an artist,
\* an album and a genre, with the empty string for an empty list; all of them
\* have the id, filePath, modificationTime, title, duration and discNumber of
\* the file and the same mediaArt.
C13_CartesianExpansion ==
    UndisturbedScan =>
        \A a \in NewInScan :
            LET info == TagInfo(fs[a[1]].tags)
                rows == {r \in tx : r.id = a[2]}
            IN  /\ Cardinality(rows) = AtLeastOne(Len(info.artists))
                                       * AtLeastOne(Len(info.albums))
                                       * AtLeastOne(Len(info.genres))
                /\ {<<r.artist, r.album, r.genre>> : r \in rows} =
                      ValuesOrEmpty(info.artists) \X ValuesOrEmpty(info.albums)
                          \X ValuesOrEmpty(info.genres)
                /\ \A r \in rows :
                      /\ r.filePath = a[1]
                      /\ r.modificationTime = fs[a[1]].mtime
                      /\ r.title = info.title
                      /\ r.duration = info.duration
                      /\ r.discNumber = info.discNumber
                      /\ \A q \in rows : q.mediaArt = r.mediaArt

(***************************************************************************)
(* C14: the end of a scan.                                                 *)
(***************************************************************************)
\* the handler of the finished signal has just run
HandlerRan == emitted = <<"updatingChanged", "databaseChanged", "mediaArtChanged">>

\* C14 (as it holds): every accepted call is followed by the handler, which
\* sets mUpdating to false and emits updatingChanged, databaseChanged and
\* mediaArtChanged, whether the worker completed, failed to open the database
\* or failed to read the rows, unless the application stops running first;
\* after the handler no scan is in progress and the next call is accepted.
C14_ScanCompletion ==
    /\ (scanPc = "start") ~> (HandlerRan \/ app # "running")
    /\ [](HandlerRan => ~mUpdating /\ ~ScanInProgress /\ scanPc = "idle")
    /\ [][(HandlerRan /\ updateDatabase) => (mUpdating' /\ scanPc' = "start" /\ ~hist'.rejected)]_vars

\* the handler has run for a scan that could not read the rows
C14_Witness == HandlerRan /\ ~mUpdating /\ hist.failed = {Failure("select", Empty)}

\* C14 (as stated), for the worker that ends by shutdown cancellation: the
\* handler follows unless the process is killed
C14_AsStated == (scanPc = "finished" /\ hist.phase = "cancelled") ~> (HandlerRan \/ app = "dead")

(***************************************************************************)
(* C15: the failures that abort the scan at its start.                     *)
(***************************************************************************)
\* the scan could not open its connection or could not read the rows
FatalStart(failed) ==
    Failure("open", Empty) \in failed \/ Failure("select", Empty) \in failed

\* C15: a scan whose connection cannot be opened, or whose SELECT of the rows
\* fails, ends at once; it has inserted, updated or deleted no row, in the
\* database file or in its transaction, and has written or removed no file of
\* the cache directory.
C15_FatalStartFailure ==
    /\ [][(scanPc = "start" /\ FatalStart(hist'.failed)) =>
            (scanPc' = "finished" /\ committed' = committed /\ tx' = tx /\ cache' = cache)]_vars
    /\ []((scanPc # "idle" /\ FatalStart(hist.failed) /\ ~hist.dirty) =>
            (scanPc = "finished" /\ committed = hist.pre /\ tx = hist.pre
             /\ cache = hist.preCache))

\* the rows could not be read by a scan that found rows and cache files
C15_Witness ==
    /\ scanPc = "finished" /\ hist.phase = "failed" /\ ~hist.dirty
    /\ hist.failed = {Failure("select", Empty)}
    /\ committed # {} /\ cache # {}

(***************************************************************************)
(* C16: a statement of the scan fails.                                     *)
(***************************************************************************)
\* the rows the failed statement was aimed at: those of the file of the walk
\* entry, or those of the ids of the bulk delete
AimedAt(failure, rows) ==
    IF failure.stmt = "bulk delete"
    THEN {r \in rows : \E i \in 1..Len(loc.filesToRemove) : loc.filesToRemove[i] = r.id}
    ELSE {r \in rows : r.filePath = failure.file}

\* the scan ran to its commit with exactly this one failure
OnlyFailure(failure) ==
    /\ scanPc = "finished" /\ hist.phase = "complete" /\ ~hist.dirty
    /\ hist.failed = {failure}

\* C16 (as stated): when a single insert, update or delete statement of a scan
\* fails, the scan goes on to its commit and the rows the statement was aimed
\* at are in the database file as they were before the scan.
C16_StatementFailureKeepsRows ==
    \A failure \in hist.failed :
        (OnlyFailure(failure) /\ failure.stmt \in {"delete", "insert", "update", "bulk delete"})
            => AimedAt(failure, committed) = AimedAt(failure, hist.pre)

(***************************************************************************)
(* C17: the tag reader returns an empty result.                            *)
(***************************************************************************)
\* a readable file of a supported extension and content type whose tags give
\* an empty result
ExtractionFails(f) ==
    /\ fs[f].kind = "file"
    /\ Suffix(f) \in mimeTypesExtensions
    /\ fs[f].mime \in mimeTypesByContent
    /\ fs[f].tags = ""

\* before the scan the file was not in the index, or was there with another
\* modification time
NewOrChanged(f) == \A r \in hist.pre : r.filePath = f => r.modificationTime # fs[f].mtime

\* C17 (as stated): after a scan in which no statement failed, a file whose
\* tags give an empty result has no row if it was not in the index, and has
\* lost its rows if it was in the index and has changed.
C17_ExtractionFailure ==
    (CompleteScan /\ hist.failed = {}) =>
        \A f \in Files : (ExtractionFails(f) /\ NewOrChanged(f)) =>
            ~\E r \in committed : r.filePath = f

(***************************************************************************)
(* C18: setMediaArt.                                                       *)
(***************************************************************************)
\* the rows as they are when exactly those of the artist and the album hold
\* the path
Assigned(rows, artist, album, path) ==
    {IF r.artist = artist /\ r.album = album THEN [r EXCEPT !.mediaArt = path] ELSE r :
       r \in rows}

\* the file the call has added to the cache directory
CopiedFile == CHOOSE path \in cache' \ cache : TRUE

\* the cache directory could not be created, or the image could not be copied
CopyFails(okMkpath, okCopy) == ~(cacheDir \/ okMkpath) \/ ~okCopy

\* C18 (as stated): a call that cannot create the cache directory or cannot
\* copy the image changes no row and does not emit mediaArtChanged; a call
\* whose copy succeeds adds one file of a fresh name to the cache directory
\* and gives its path to exactly the rows of the artist and the album.
C18_SetMediaArt ==
    [][\A aa \in ArtistAlbums : \A okMkpath \in BOOLEAN, okCopy \in BOOLEAN, okExec \in BOOLEAN :
         setMediaArtCall(aa[1], aa[2], okMkpath, okCopy, okExec) =>
             IF CopyFails(okMkpath, okCopy)
             THEN committed' = committed /\ emitted' = << >> /\ cache' = cache
             ELSE /\ Cardinality(cache' \ cache) = 1
                  /\ committed' = Assigned(committed, aa[1], aa[2], CopiedFile)]_vars

(***************************************************************************)
(* C20: the schema check.                                                  *)
(***************************************************************************)
ColumnSet(columns) == {columns[i] : i \in 1..Len(columns)}

\* the file holds a tracks table whose column set is the expected one
ExpectedTable(columns) == columns # NoTable /\ ColumnSet(columns) = ColumnSet(fields)

\* C20: when nothing fails, initDatabase keeps a table of the expected column
\* set with its rows and creates no table, and otherwise drops the table, if
\* there is one, and creates it empty; mCreatedTable is true exactly when the
\* table was created or recreated, and implies mDatabaseInitialized; a failed
\* open or a failed CREATE TABLE leaves mDatabaseInitialized false.
C20_SchemaCheck ==
    /\ [](store.mCreatedTable => store.mDatabaseInitialized)
    /\ [][\A okMkpath \in BOOLEAN, okOpen \in BOOLEAN, okDrop \in BOOLEAN, okCreate \in BOOLEAN :
           restartWith(okMkpath, okOpen, okDrop, okCreate) =>
             /\ (okMkpath /\ okOpen /\ okDrop /\ okCreate) =>
                   /\ store'.mDatabaseInitialized
                   /\ IF ExpectedTable(store.columns)
                      THEN /\ store'.columns = store.columns /\ committed' = committed
                           /\ ~store'.mCreatedTable
                      ELSE /\ store'.columns = fields /\ committed' = {}
                           /\ store'.mCreatedTable
             /\ store'.mCreatedTable <=>
                   (store'.columns = fields /\ committed' = {} /\ ~ExpectedTable(store.columns)
                    /\ store'.mDatabaseInitialized)
             /\ (~okOpen \/ (okMkpath /\ ~ExpectedTable(store.columns) /\ ~okCreate)) =>
                   ~store'.mDatabaseInitialized]_vars

\* a table of an older version with rows was found, dropped and created anew
C20_Witness ==
    /\ app = "running" /\ hist.found.rows # {}
    /\ Len(hist.found.columns) # Len(fields)
    /\ store = Store(fields, TRUE, TRUE, TRUE) /\ committed = {}
    /\ used.scans = MaxScans - 1 /\ used.events = MaxEvents - 1

(***************************************************************************)
(* C19: the aggregates.                                                    *)
(***************************************************************************)
\* the sums that take the duration of one row for each of the ids
RECURSIVE OncePerId(_, _)
OncePerId(ids, rows) ==
    IF ids = {} THEN {0}
    ELSE LET id == CHOOSE i \in ids : TRUE
         IN  {r.duration + rest : r \in {q \in rows : q.id = id},
                                  rest \in OncePerId(ids \ {id}, rows)}

\* the call was answered from the table
Answered(call) == returned.call = call /\ returned.ok /\ store.mDatabaseInitialized

\* C19: tracksCount() returns the number of distinct ids and tracksDuration()
\* the sum of the durations taken once for each id, however many rows a file
\* has; every aggregate operation returns 0, or an empty path, when
\* mDatabaseInitialized is false.
C19_Aggregates ==
    /\ Answered("tracksCount") => returned.count = Cardinality(IdsOf(committed))
    /\ Answered("tracksDuration") => returned.count \in OncePerId(IdsOf(committed), committed)
    /\ (returned.call # "none" /\ ~store.mDatabaseInitialized) =>
          (returned.count = 0 /\ returned.path = Empty)

\* the duration of a file with several rows was returned
C19_Witness ==
    /\ Answered("tracksDuration")
    /\ returned.count > 0
    /\ Cardinality(committed) > Cardinality(IdsOf(committed))

(***************************************************************************)
(* C21: an unchanged file whose stored art is empty or a directory image.  *)
(***************************************************************************)
\* the load put the file into the files map, and its modification time is the
\* stored one
UnchangedInIndex(f) ==
    /\ f \in DOMAIN loc.files
    /\ fs[f].kind = "file"
    /\ fs[f].mtime = loc.modificationTimeHash[loc.files[f]]

\* the art the load read for the file
StoredArt(f) == hist.group[loc.files[f]].mediaArt

\* the rows of the file's id
RowsOfId(rows, f) == {r \in rows : r.id = loc.files[f]}

\* the stored art is empty, or an image outside the cache directory that is
\* on disk
EmptyOrExternal(f) ==
    \/ StoredArt(f) = Empty
    \/ ~StartsWith(StoredArt(f), mMediaArtDirectory) /\ FileExists(StoredArt(f))

\* C21 (as stated): a complete scan leaves the rows of an unchanged file whose
\* stored art is empty, or a directory image, with the mediaArt they had.
C21_EmptyOrExternalUntouched ==
    CompleteScan =>
        \A f \in Files : (UnchangedInIndex(f) /\ EmptyOrExternal(f)) =>
            RowsOfId(committed, f) = RowsOfId(hist.pre, f)

(***************************************************************************)
(* C22: an unchanged file whose stored art is an embedded art file.        *)
(***************************************************************************)
\* the scan has loaded the rows and no event has disturbed it
InOrAfterScan == UndisturbedScan \/ CompleteScan

\* the row held the path of an embedded art file that was on disk at the
\* scan's start
EmbeddedOnDisk(r) ==
    /\ StartsWith(r.mediaArt, mMediaArtDirectory)
    /\ Contains(r.mediaArt, "-embedded")
    /\ r.mediaArt \in hist.preCache

\* C22: during and after a scan, every row of an unchanged file that held an
\* existing embedded art file, the load having read that path for the file,
\* holds the same path if directory art is not preferred, and holds the same
\* path or the image of the file's directory if it is preferred; it is never
\* empty.
C22_EmbeddedKept ==
    InOrAfterScan =>
        \A f \in Files : UnchangedInIndex(f) =>
            \A r \in RowsOfId(hist.pre, f) : (EmbeddedOnDisk(r) /\ StoredArt(f) = r.mediaArt) =>
                /\ \E q \in tx : SameRow(q, r)
                /\ \A q \in tx : SameRow(q, r) =>
                      \/ q.mediaArt = r.mediaArt
                      \/ /\ loc.preferDirectoryMediaArt
                         /\ DirectoryArt(f) # Empty
                         /\ q.mediaArt = DirectoryArt(f)

\* a row that held embedded art was given the directory image
C22_Witness ==
    /\ CompleteScan
    /\ \E f \in Files : /\ UnchangedInIndex(f)
                         /\ \E r \in RowsOfId(hist.pre, f) :
                               /\ EmbeddedOnDisk(r) /\ StoredArt(f) = r.mediaArt
                               /\ \E q \in committed : SameRow(q, r) /\ q.mediaArt = DirectoryArt(f)

(***************************************************************************)
(* C23: the tag reader and the files that have not changed.                *)
(***************************************************************************)
\* C23 (as stated): during and after a scan, the tag reader has not been
\* invoked for any file that is in the files map with the modification time
\* it has on disk.
C23_UnchangedNotRead ==
    InOrAfterScan => \A f \in Files : UnchangedInIndex(f) => f \notin hist.read

(***************************************************************************)
(* C24: a file of the index whose modification time differs.               *)
(***************************************************************************)
\* the art the walk resolves for f from what is on disk
ResolvedArt(f) ==
    IF fs[f].art # "" /\ (DirectoryArt(f) = Empty \/ ~loc.preferDirectoryMediaArt)
    THEN (IF Persistable(f) THEN EmbeddedPath(Md5(fs[f].art), PreferredSuffix(fs[f].art))
          ELSE Empty)
    ELSE DirectoryArt(f)

\* the values of a list of tags, the null string standing for an empty list
ValuesOrNull(strings) ==
    IF strings = << >> THEN {NullString} ELSE {strings[i] : i \in 1..Len(strings)}

\* the rows are the expansion of the tags of f as it is on disk, under the id,
\* with the modification time of f and the art given
ExpansionOf(rows, f, id, art) ==
    LET info == TagInfo(fs[f].tags)
    IN  /\ Cardinality(rows) = AtLeastOne(Len(info.artists))
                               * AtLeastOne(Len(info.albums))
                               * AtLeastOne(Len(info.genres))
        /\ {<<r.artist, r.album, r.genre>> : r \in rows} =
              ValuesOrNull(info.artists) \X ValuesOrNull(info.albums)
                  \X ValuesOrNull(info.genres)
        /\ \A r \in rows :
              /\ r.id = id
              /\ r.filePath = f
              /\ r.modificationTime = fs[f].mtime
              /\ r.title = info.title
              /\ r.duration = info.duration
              /\ r.discNumber = info.discNumber
              /\ valueToString(r.mediaArt) = art

\* C24 (as stated): after a complete scan the rows of the id of a changed
\* file of a supported type are exactly the expansion of its new tags, with
\* the new modification time and the art resolved for it, and the id of a
\* changed file of an unsupported type has no row.
C24_ChangedFile ==
    CompleteScan =>
        \A f \in Files : ChangedInIndex(f) =>
            IF fs[f].mime \in mimeTypesByContent
            THEN ExpansionOf(RowsOfId(committed, f), f, loc.files[f], ResolvedArt(f))
            ELSE RowsOfId(committed, f) = {}

(***************************************************************************)
(* C25: the rows of files that have vanished or are excluded.              *)
(***************************************************************************)
\* the path does not exist, is a directory, is unreadable, lies under no
\* library directory of the settings, or its directory has a .nomedia file
VanishedOrExcluded(path) ==
    \/ fs[path].kind \in {"none", "dir", "noread"}
    \/ ~LibraryFile(path)
    \/ DirOf(path) \in noMedia

MarkedForDeletion == {loc.filesToRemove[i] : i \in 1..Len(loc.filesToRemove)}

\* C25: from the first step of the walk on, the id of every pre-scan row
\* whose path has vanished or is excluded is in filesToRemove and the path is
\* not in the files map, and after a complete scan the index has no row of
\* that id or of that path.
C25_VanishedAndExcluded ==
    /\ UndisturbedScan =>
          \A r \in hist.pre : VanishedOrExcluded(r.filePath) =>
              /\ r.id \in MarkedForDeletion
              /\ r.filePath \notin DOMAIN loc.files
    /\ CompleteScan =>
          \A r \in hist.pre : VanishedOrExcluded(r.filePath) =>
              \A q \in committed : q.id # r.id /\ q.filePath # r.filePath

\* a complete scan has removed the rows of a file that the settings had left
\* out of the library
C25_Witness ==
    /\ CompleteScan
    /\ \E r \in hist.pre : /\ fs[r.filePath].kind = "file"
                            /\ DirOf(r.filePath) \notin noMedia
                            /\ ~LibraryFile(r.filePath)
                            /\ r.id \in MarkedForDeletion
    /\ committed = {}

(***************************************************************************)
(* C26: the files that are not in the index when the scan starts.          *)
(***************************************************************************)
\* no pre-scan row has the path
NotInIndex(f) == \A r \in hist.pre : r.filePath # f

\* a readable regular file under a library directory that is not
\* blacklisted, whose directory has no .nomedia file, with an audio
\* extension and content of a supported type
Indexable(f) ==
    /\ fs[f].kind = "file"
    /\ LibraryFile(f)
    /\ ~BlacklistedFile(f)
    /\ DirOf(f) \notin noMedia
    /\ Suffix(f) = <<"mp3">>
    /\ fs[f].mime = "audio/mpeg"

\* C26: a file that had no row before the scan has rows in the transaction
\* exactly if the walk has visited it and it is indexable, and after a
\* complete scan it has rows in the index exactly if it is indexable; the
\* rows it has carry an id that no pre-scan row had.
C26_NewFile ==
    /\ UndisturbedScan =>
          \A f \in DOMAIN fs : NotInIndex(f) =>
              /\ (\E r \in tx : r.filePath = f) <=> (f \in hist.visited /\ Indexable(f))
              /\ \A r \in tx : r.filePath = f => r.id \notin IdsOf(hist.pre)
    /\ CompleteScan =>
          \A f \in DOMAIN fs : NotInIndex(f) =>
              /\ (\E r \in committed : r.filePath = f) <=> Indexable(f)
              /\ \A r \in committed : r.filePath = f => r.id \notin IdsOf(hist.pre)

\* a complete scan has indexed a new audio file and has left out a new file
\* with audio content whose extension is not an audio extension
C26_Witness ==
    /\ CompleteScan
    /\ hist.pre = {}
    /\ fs[FileZ].kind = "file" /\ fs[FileZ].mime = "audio/mpeg" /\ LibraryFile(FileZ)
    /\ \E r \in committed : r.filePath = FileX
    /\ \A r \in committed : r.filePath # FileZ

(***************************************************************************)
(* C27: the files of the cache directory and the art paths of the index.   *)
(***************************************************************************)
\* the paths in the cache directory that rows of the table hold as mediaArt
ReferencedCacheFiles(rows) ==
    {r.mediaArt : r \in {q \in rows : StartsWith(q.mediaArt, mMediaArtDirectory)}}

\* C27 (as stated): after a complete scan the files of the cache directory
\* are the cache-directory paths that rows of the committed index hold.
C27_CacheAgreesWithIndex ==
    CompleteScan => cache = ReferencedCacheFiles(committed)

(***************************************************************************)
(* C28: the statements of the nullification.                               *)
(***************************************************************************)
\* the statements of a nullification that is over
Issued == nullification.statements

\* C28: for n >= 1 missing art paths the nullification prepares ceil(n/999)
\* UPDATE statements, each binds between 1 and 999 paths and every missing
\* path is bound by exactly one statement; for n = 0 it prepares none.
C28_NullificationChunks ==
    nullification.done =>
        LET n == nullification.max
        IN  /\ Len(Issued) = (n + 998) \div 999
            /\ n = 0 => Issued = << >>
            /\ \A k \in 1..Len(Issued) : Issued[k].count \in 1..999
            /\ \A j \in 0..(n - 1) :
                  Cardinality({k \in 1..Len(Issued) : j \in BoundBy(Issued[k])}) = 1
            /\ \A k \in 1..Len(Issued) : BoundBy(Issued[k]) \subseteq 0..(n - 1)

\* 1999 missing paths were nullified by three statements, the last of one path
C28_Witness ==
    /\ nullification.done
    /\ nullification.max = 1999
    /\ Len(Issued) = 3
    /\ Issued[3].count = 1

(***************************************************************************)
(* C29: embedded art whose cache file is missing when the scan starts.     *)
(***************************************************************************)
\* the file is unchanged, the row read for it at load holds the path of an
\* embedded art file, and the cache directory did not hold that file when the
\* scan started
MissingEmbedded(f) ==
    /\ UnchangedInIndex(f)
    /\ Persistable(f)
    /\ StoredArt(f) = EmbeddedPath(Md5(fs[f].art), PreferredSuffix(fs[f].art))
    /\ StoredArt(f) \notin hist.preCache

\* the rows of the file hold the path of its embedded art and the cache
\* directory holds the file
Restored(f, rows) ==
    /\ StoredArt(f) \in cache
    /\ \A r \in RowsOfId(rows, f) : r.mediaArt = StoredArt(f)

\* C29 (as stated): once the walk of a scan has visited an unchanged file
\* whose embedded art file was missing at the start, the cache directory
\* holds the file again and the rows of the file hold its path, up to the
\* nullification and after the complete scan.
C29_MissingEmbeddedRestored ==
    /\ (UndisturbedScan /\ scanPc \in {"walk", "delete", "nullify"}) =>
          \A f \in hist.visited \cap Files : MissingEmbedded(f) => Restored(f, tx)
    /\ CompleteScan =>
          \A f \in Files : MissingEmbedded(f) => Restored(f, committed)

(***************************************************************************)
(* C30: the sweep and the art files that the committed rows hold.          *)
(***************************************************************************)
\* C30 (as stated): the sweep of a scan, whatever statements of the scan
\* have failed, removes no cache file whose path a row of the transaction
\* holds, the transaction being the index that the scan commits next.
C30_SweepKeepsReferenced ==
    [][(scanPc = "sweep" /\ scanPc' = "commit") =>
           (cache \ cache') \cap ReferencedCacheFiles(tx') = {}]_vars

(***************************************************************************)
(* C31: setMediaArt and resetDatabase while a scan is between its load and *)
(* its commit.                                                             *)
(***************************************************************************)
\* the scan has run to its end and the calls have returned
BothFinished(call) ==
    scanPc = "finished" /\ hist.phase = "complete" /\ hist.inflight = {call}

\* every art path in the cache directory that a row holds names a file
NoDanglingArt(rows) == ReferencedCacheFiles(rows) \subseteq cache

\* C31 (as stated): when a scan that setMediaArt or resetDatabase
\* interleaved with has run to its end, every cache-directory path that a row
\* of the index holds names a file that exists.
C31_NoDanglingArt ==
    (BothFinished("setMediaArt") \/ BothFinished("resetDatabase")) => NoDanglingArt(committed)

(***************************************************************************)
(* C32: a scan cancelled by the shutdown, and the complete scan after it.  *)
(***************************************************************************)
\* the index and the cache directory as they are
Outcome == [rows |-> committed, cache |-> cache]

\* a complete scan has followed a cancelled one, with nothing but the
\* shutdown and the start of the application in between
Recovered == CompleteScan /\ hist.recovering

\* C32 (as stated): after a scan cancelled in its walk and a complete scan
\* that follows it with no change of the filesystem or the settings, the rows
\* and the files of the cache directory are those that one complete scan from
\* the state in which the cancelled scan started leaves, for some order of
\* its walk.
C32_CancellationRecoverable ==
    Recovered => Outcome \in hist.single

====
